---- MODULE Spec2Model ----
(***************************************************************************)
(* A model of the monitoring core of zoracle-telegram:                     *)
(*   - src/trading/alerts.py: the price alert store (price_alerts,         *)
(*     token_data), add_price_alert, remove_price_alert and one cycle of   *)
(*     start_alert_monitoring (check_price_alerts followed by              *)
(*     check_liquidity_changes);                                           *)
(*   - src/trading/copytrade.py: the copy-trade registry                   *)
(*     (monitored_wallets, processed_transactions), setup_copy_trading,    *)
(*     update_copy_trading and process_transaction, over the persisted     *)
(*     configurations of src/database/operations.py.                       *)
(*                                                                         *)
(* Every coroutine of the two modules runs without an await between its    *)
(* first and last statement (the only awaits are the asyncio.sleep calls   *)
(* of the loops), so each call is one atomic action of the event loop.     *)
(*                                                                         *)
(* Python dicts are functions whose DOMAIN is the set of keys; lists are   *)
(* sequences; Optional values are None (<<>>) or <<v>>.  Prices are        *)
(* integers (a price level p stands for p * 0.0005 ETH): the code only     *)
(* compares and copies them.  ETH liquidity is an integer-valued double,   *)
(* and the percentage of check_liquidity_changes is computed in IEEE-754   *)
(* binary64 as the interpreter computes it.                                *)
(***************************************************************************)
EXTENDS Integers, Sequences, FiniteSets, TLC

VARIABLES
    users,                  \* database table users: telegram_id -> row
    price_alerts,           \* alerts.py:26    token -> list of alerts
    token_data,             \* alerts.py:30    token -> dict of last observed values
    triggered_alerts,       \* alerts.py:396   list returned by the last check_price_alerts
    liquidity_alerts,       \* alerts.py:399   list returned by the last check_liquidity_changes
    configs,                \* database table copy_trade_configs: list of rows, id = index
    monitored_wallets,      \* copytrade.py:29 wallet -> list of in-memory configurations
    processed_transactions, \* copytrade.py:30 set of transaction hashes
    copy_trades,            \* history of the log line copytrade.py:282:
                            \* <<config_id, tx_hash>> -> number of mirror steps
    last,                   \* the last call: its name, its result, the tokens whose processing
                            \* it logged as failed, and what the price feed answered it
    conversations,          \* telegram_id -> the states of the user's conversations and
                            \* the user's context.user_data
    chain,                  \* the blocks of the chain, each the set of its transactions
    tasks,                  \* the tasks created by bot.py:40-41, each with the position
                            \* and the local variables of its coroutine
    running                 \* the index of the task the event loop is running, 0 when idle

vars == <<users, price_alerts, token_data, triggered_alerts, liquidity_alerts,
          configs, monitored_wallets, processed_transactions, copy_trades, last,
          conversations, chain, tasks, running>>

alert_vars == <<price_alerts, token_data, triggered_alerts, liquidity_alerts>>
copy_vars == <<configs, monitored_wallets, processed_transactions, copy_trades>>
\* the state outside the two trading modules: the conversations, the chain, the tasks
shell_vars == <<conversations, chain, tasks, running>>

----------------------------------------------------------------------------
(* Bounds of the model *)

\* price levels 0..MaxPrice
MaxPrice == 3
\* thresholds 1..MaxThreshold
MaxThreshold == 1
\* ETH liquidity values 0..MaxLiquidity
MaxLiquidity == 12
\* rows of the table copy_trade_configs
MaxConfigs == 2
\* blocks mined
MaxHeight == 2

TelegramIds == {"u1", "u2"}
Tokens == {"T1", "T2"}

None == <<>>
Some(v) == <<v>>
\* Python truthiness of an Optional[float]: None and 0.0 are false
Truthy(o) == o # None /\ o[1] # 0

Prices == 0..MaxPrice
Thresholds == {None} \cup {Some(v) : v \in 1..MaxThreshold}
\* what a call that raises yields; a call that returns v yields Some(v)
Fail == <<>>

\* float("nan"): the float of which no comparison holds.  The other floats of the model
\* are integers; NaN is an integer that none of them equals.
NaN == -1000
\* x < y and x <= y on floats
FloatLt(x, y) == x # NaN /\ y # NaN /\ x < y
FloatLe(x, y) == x # NaN /\ y # NaN /\ x <= y

EmptyDict == [k \in {} |-> 0]
Put(d, k, v) == [x \in DOMAIN d \cup {k} |-> IF x = k THEN v ELSE d[x]]
Del(d, k) == [x \in DOMAIN d \ {k} |-> d[x]]
Get(d, k, default) == IF k \in DOMAIN d THEN d[k] ELSE default

\* the sequence s without its i-th element (list.pop(i))
Pop(s, i) == [j \in 1..(Len(s) - 1) |-> IF j < i THEN s[j] ELSE s[j + 1]]

\* the keys of a dict as a list (the model iterates a dict in one fixed order;
\* the tokens of a poll are processed independently of each other)
RECURSIVE KeyList(_)
KeyList(S) == IF S = {} THEN <<>>
              ELSE LET k == CHOOSE x \in S : TRUE IN <<k>> \o KeyList(S \ {k})

----------------------------------------------------------------------------
(* IEEE-754 binary64 arithmetic of alerts.py:344-350.                      *)
(* A magnitude is [m |-> bits, e |-> exponent]: the integer whose binary   *)
(* digits are m (most significant first, no leading zero) times 2^e.       *)

Zeros(n) == [i \in 1..n |-> 0]

MaxOf(x, y) == IF x >= y THEN x ELSE y
MinOf(x, y) == IF x <= y THEN x ELSE y

\* b without its leading zeros
Strip(b) ==
    LET ones == {i \in 1..Len(b) : b[i] = 1}
    IN IF ones = {} THEN <<>>
       ELSE SubSeq(b, CHOOSE i \in ones : \A j \in ones : i <= j, Len(b))

PadLeft(b, n) == Zeros(n - Len(b)) \o b

\* a + b: the carry into bit i comes from a lower bit j where both are 1, through
\* bits where at least one is 1
BitsAdd(a, b) ==
    LET n == MaxOf(Len(a), Len(b)) + 1
        A == PadLeft(a, n)
        B == PadLeft(b, n)
        carry(i) == \E j \in (i + 1)..n :
                        /\ A[j] + B[j] = 2
                        /\ \A k \in (i + 1)..(j - 1) : A[k] + B[k] >= 1
    IN Strip([i \in 1..n |-> (A[i] + B[i] + (IF carry(i) THEN 1 ELSE 0)) % 2])

\* a - b for a >= b: the borrow from bit i comes from a lower bit j where a has 0
\* and b has 1, through bits where a's is not above b's
BitsSub(a, b) ==
    LET n == MaxOf(Len(a), Len(b))
        A == PadLeft(a, n)
        B == PadLeft(b, n)
        borrow(i) == \E j \in (i + 1)..n :
                         /\ A[j] < B[j]
                         /\ \A k \in (i + 1)..(j - 1) : A[k] <= B[k]
    IN Strip([i \in 1..n |-> (A[i] - B[i] - (IF borrow(i) THEN 1 ELSE 0) + 2) % 2])

\* a >= b for bit strings without leading zeros
BitsGe(a, b) ==
    IF Len(a) # Len(b) THEN Len(a) > Len(b)
    ELSE LET diff == {i \in 1..Len(a) : a[i] # b[i]}
         IN IF diff = {} THEN TRUE
            ELSE LET d == CHOOSE i \in diff : \A j \in diff : i <= j IN a[d] > b[d]

\* the number of significant bits of a binary64
MantissaBits == 53

\* round to nearest, ties to even, to at most MantissaBits significant bits
Round53(m, e) ==
    IF Len(m) <= MantissaBits THEN [m |-> m, e |-> e]
    ELSE LET top == SubSeq(m, 1, MantissaBits)
             rest == SubSeq(m, MantissaBits + 1, Len(m))
             sticky == \E i \in 2..Len(rest) : rest[i] = 1
             up == rest[1] = 1 /\ (sticky \/ top[MantissaBits] = 1)
         IN [m |-> IF up THEN BitsAdd(top, <<1>>) ELSE top, e |-> e + Len(rest)]

RECURSIVE ScaleUp(_, _)
\* the least k >= 0 with x * 2^k >= y
ScaleUp(x, y) == IF x >= y THEN 0 ELSE 1 + ScaleUp(2 * x, y)

RECURSIVE ScaleDown(_, _)
\* the greatest k >= 0 with y * 2^k <= x  (for y <= x)
ScaleDown(x, y) == IF 2 * y > x THEN 0 ELSE 1 + ScaleDown(x, 2 * y)

RECURSIVE Pow2(_)
Pow2(k) == IF k = 0 THEN 1 ELSE 2 * Pow2(k - 1)

RECURSIVE ModPow2(_, _)
\* 2^k mod p
ModPow2(k, p) ==
    IF k = 0 THEN 1 % p
    ELSE LET h == ModPow2(k \div 2, p)
         IN (((h * h) % p) * (IF k % 2 = 1 THEN 2 ELSE 1)) % p

\* c / p for integers c >= 0, p > 0: the correctly rounded quotient
FDiv(c, p) ==
    IF c = 0 THEN [m |-> <<>>, e |-> 0]
    ELSE LET sc == ScaleUp(c, p)
             c1 == c * Pow2(sc)
             sp == ScaleDown(c1, p)
             p1 == p * Pow2(sp)
             \* long division of c1 by p1, p1 <= c1 < 2 * p1: the remainder after i
             \* quotient bits is c1 * 2^(i-1) mod p1
             rem(i) == ((c1 % p1) * ModPow2(i - 1, p1)) % p1
             quotient == [i \in 1..(MantissaBits + 1) |->
                             IF i = 1 THEN 1 ELSE IF 2 * rem(i - 1) >= p1 THEN 1 ELSE 0]
             sticky == IF rem(MantissaBits + 1) # 0 THEN 1 ELSE 0
         IN Round53(quotient \o <<sticky>>, sp - sc - (MantissaBits + 1))

\* x - 1.0: [neg, m, e]
FSubOne(x) ==
    LET emin == MinOf(x.e, 0)
        xm == Strip(x.m \o Zeros(x.e - emin))
        om == <<1>> \o Zeros(0 - emin)
    IN IF BitsGe(xm, om)
       THEN [neg |-> FALSE] @@ Round53(BitsSub(xm, om), emin)
       ELSE [neg |-> TRUE] @@ Round53(BitsSub(om, xm), emin)

\* y * 100 (100 = 64 + 32 + 4)
FMul100(y) ==
    LET m == BitsAdd(BitsAdd(Strip(y.m \o Zeros(6)), Strip(y.m \o Zeros(5))),
                     Strip(y.m \o Zeros(2)))
    IN [neg |-> y.neg] @@ Round53(m, y.e)

\* abs(y) >= 20
FAbsGe20(y) ==
    LET emin == MinOf(y.e, 0)
    IN BitsGe(Strip(y.m \o Zeros(y.e - emin)), <<1, 0, 1, 0, 0>> \o Zeros(0 - emin))

\* alerts.py:344-347
ChangePercent(previous_eth_liquidity, current_eth_liquidity) ==
    IF previous_eth_liquidity > 0
    THEN FMul100(FSubOne(FDiv(current_eth_liquidity, previous_eth_liquidity)))
    ELSE [neg |-> FALSE, m |-> <<>>, e |-> 0]

\* abs(change_percent) >= 20 for every pair of liquidities of the model, computed once
SignificantChange ==
    [previous \in 0..MaxLiquidity |->
        [current \in 0..MaxLiquidity |-> FAbsGe20(ChangePercent(previous, current))]]

\* alerts.py:350   abs(change_percent) >= 20
IsSignificant(previous_eth_liquidity, current_eth_liquidity) ==
    SignificantChange[previous_eth_liquidity][current_eth_liquidity]

----------------------------------------------------------------------------
(* The users table (src/database/models.py:16-30) *)

NoWalletRow == [wallet_address |-> None, encrypted_private_key |-> None]
WalletRow(u) == [wallet_address |-> Some(<<"wallet", u>>),
                 encrypted_private_key |-> Some(<<"key", u>>)]

\* a lookup that answers with a fresh row for a telegram_id that has none
get_or_create_user(telegram_id) ==
    IF telegram_id \in DOMAIN users THEN Some(users[telegram_id]) ELSE Some(NoWalletRow)

\* database/operations.py:30-37: the row, or None
get_user_by_telegram_id(telegram_id) ==
    IF telegram_id \in DOMAIN users THEN Some(users[telegram_id]) ELSE None

----------------------------------------------------------------------------
(* The external feeds (src/utils/tokens.py).  A price sample is determined *)
(* by its ETH price, a liquidity sample by its ETH liquidity.              *)

\* tokens.py:59  the USD price of the mock assumes ETH = $2500
EthUsd == 2500
\* tokens.py:73  the mock pool holds 1000 tokens per ETH
TokensPerEth == 1000

\* tokens.py:38-62 get_token_price
PriceData(p) == [price_in_eth |-> p, price_in_usd |-> p * EthUsd]
\* tokens.py:64-77 get_token_liquidity
LiquidityData(l) == [eth_liquidity |-> l, token_liquidity |-> l * TokensPerEth]

----------------------------------------------------------------------------
(* src/trading/alerts.py *)

Alert(telegram_id, price_high, price_low) ==
    [telegram_id |-> telegram_id, price_high |-> price_high, price_low |-> price_low]

\* a search that stops at the first alert of the list, whoever subscribed it
AlertIndexFirst(alerts, telegram_id) == IF alerts = <<>> THEN 0 ELSE 1

\* the index of telegram_id's alert in a list of alerts, 0 when it has none
\* (the first match of the loops at alerts.py:92 and alerts.py:166)
AlertIndex(alerts, telegram_id) ==
    LET hits == {i \in 1..Len(alerts) : alerts[i]["telegram_id"] = telegram_id}
    IN IF hits = {} THEN 0 ELSE CHOOSE i \in hits : \A j \in hits : i <= j

\* a registration that appends without looking for the subscriber's alert
RegisterAlertAppending(alerts, telegram_id, price_high, price_low) ==
    Append(alerts, Alert(telegram_id, price_high, price_low))

\* alerts.py:88-114: the list of the token after registering the alert: an existing
\* alert of the subscriber has its thresholds overwritten, otherwise one is appended
RegisterAlert(alerts, telegram_id, price_high, price_low) ==
    LET i == AlertIndex(alerts, telegram_id)
    IN IF i # 0
       THEN [alerts EXCEPT ![i] = Alert(telegram_id, price_high, price_low)]
       ELSE Append(alerts, Alert(telegram_id, price_high, price_low))

\* add_price_alert (alerts.py:32-144).
\*   wl: "no_name" (watchlist_name is None), "found" or "not_found" (the lookup of
\*       alerts.py:63-76; the row written at alerts.py:79-85 is read by no operation
\*       of the monitoring core)
\*   info_ok: get_token_info returns;  quote, liq: what get_token_price and
\*       get_token_liquidity return if called now: Some(value) or Fail
add_price_alert(telegram_id, token_address, price_high, price_low, wl, info_ok, quote, liq) ==
    /\ UNCHANGED <<users, triggered_alerts, liquidity_alerts, copy_vars>>
    /\ IF get_user_by_telegram_id(telegram_id) = None
       THEN /\ last' = [op |-> "add_price_alert", result |-> "User not found", errors |-> {}, quote |-> quote]
            /\ UNCHANGED <<price_alerts, token_data>>
       ELSE IF ~info_ok
       THEN /\ last' = [op |-> "add_price_alert", result |-> "Error adding price alert",
                         errors |-> {}, quote |-> quote]
            /\ UNCHANGED <<price_alerts, token_data>>
       ELSE IF wl = "not_found"
       THEN /\ last' = [op |-> "add_price_alert", result |-> "Watchlist not found", errors |-> {}, quote |-> quote]
            /\ UNCHANGED <<price_alerts, token_data>>
       ELSE LET alerts == Get(price_alerts, token_address, <<>>)
                existing == AlertIndex(alerts, telegram_id) # 0
            IN /\ price_alerts' = Put(price_alerts, token_address,
                                      RegisterAlert(alerts, telegram_id, price_high, price_low))
               /\ IF existing
                  THEN \* alerts.py:94-107
                       /\ last' = [op |-> "add_price_alert", result |-> "updated", errors |-> {}, quote |-> quote]
                       /\ UNCHANGED token_data
                  ELSE IF token_address \in DOMAIN token_data
                  THEN /\ last' = [op |-> "add_price_alert", result |-> "added", errors |-> {}, quote |-> quote]
                       /\ UNCHANGED token_data
                  ELSE IF quote = Fail \/ liq = Fail
                  THEN \* alerts.py:118-119 raises after the append of alerts.py:110
                       /\ last' = [op |-> "add_price_alert",
                                   result |-> "Error adding price alert", errors |-> {}, quote |-> quote]
                       /\ UNCHANGED token_data
                  ELSE /\ last' = [op |-> "add_price_alert", result |-> "added", errors |-> {}, quote |-> quote]
                       /\ token_data' = Put(token_data, token_address,
                              [price_eth |-> PriceData(quote[1]).price_in_eth,
                               price_usd |-> PriceData(quote[1]).price_in_usd,
                               eth_liquidity |-> LiquidityData(liq[1]).eth_liquidity,
                               token_liquidity |-> LiquidityData(liq[1]).token_liquidity])

\* alerts.py:166-172: the store after removing the i-th alert of the token
RemoveAlert(alerts_by_token, token_address, i) ==
    LET rest == Pop(alerts_by_token[token_address], i)
    IN IF rest = <<>> THEN Del(alerts_by_token, token_address)
       ELSE Put(alerts_by_token, token_address, rest)

\* remove_price_alert (alerts.py:146-190)
remove_price_alert(telegram_id, token_address) ==
    /\ UNCHANGED <<users, triggered_alerts, liquidity_alerts, copy_vars>>
    /\ IF token_address \notin DOMAIN price_alerts
       THEN /\ last' = [op |-> "remove_price_alert", result |-> "Alert not found", errors |-> {}, quote |-> None]
            /\ UNCHANGED <<price_alerts, token_data>>
       ELSE LET i == AlertIndex(price_alerts[token_address], telegram_id)
            IN IF i = 0
               THEN /\ last' = [op |-> "remove_price_alert", result |-> "Alert not found", errors |-> {}, quote |-> None]
                    /\ UNCHANGED <<price_alerts, token_data>>
               ELSE /\ last' = [op |-> "remove_price_alert", result |-> "removed", errors |-> {}, quote |-> None]
                    /\ price_alerts' = RemoveAlert(price_alerts, token_address, i)
                    /\ UNCHANGED token_data

\* alerts.py:278
HighCrossed(price_high, previous_price, current_price) ==
    /\ Truthy(price_high)
    /\ FloatLt(previous_price, price_high[1]) /\ FloatLe(price_high[1], current_price)

\* a low threshold that fires whenever the price is at or below it, whatever the
\* previous price
LowCrossedLevel(price_low, previous_price, current_price) ==
    /\ Truthy(price_low)
    /\ FloatLe(current_price, price_low[1])

\* alerts.py:295
LowCrossed(price_low, previous_price, current_price) ==
    /\ Truthy(price_low)
    /\ FloatLt(price_low[1], previous_price) /\ FloatLe(current_price, price_low[1])

\* alerts.py:283-292 and 300-309 (token_name, token_symbol and message are derived from
\* the other fields and the token info)
PriceEvent(type, telegram_id, token_address, threshold, current_price) ==
    [type |-> type, telegram_id |-> telegram_id, token_address |-> token_address,
     threshold |-> threshold, current_price |-> current_price]

\* alerts.py:272-309: the alerts of one token from the i-th on.  acc.calls counts the
\* get_token_info calls; the call numbered fail_at raises and ends the token's
\* processing (alerts.py:311), keeping the events appended so far.
RECURSIVE ScanAlerts(_, _, _, _, _, _, _)
ScanAlerts(alerts, i, token_address, previous_price, current_price, fail_at, acc) ==
    IF i > Len(alerts) \/ acc.raised THEN acc
    ELSE LET a == alerts[i]
             high == IF ~HighCrossed(a.price_high, previous_price, current_price) THEN acc
                     ELSE IF acc.calls + 1 = fail_at
                     THEN [acc EXCEPT !.calls = @ + 1, !.raised = TRUE]
                     ELSE [acc EXCEPT !.calls = @ + 1,
                                      !.events = Append(@, PriceEvent("price_high",
                                          a.telegram_id, token_address, a.price_high[1],
                                          current_price))]
             low == IF high.raised
                       \/ ~LowCrossed(a.price_low, previous_price, current_price) THEN high
                    ELSE IF high.calls + 1 = fail_at
                    THEN [high EXCEPT !.calls = @ + 1, !.raised = TRUE]
                    ELSE [high EXCEPT !.calls = @ + 1,
                                      !.events = Append(@, PriceEvent("price_low",
                                          a.telegram_id, token_address, a.price_low[1],
                                          current_price))]
         IN ScanAlerts(alerts, i + 1, token_address, previous_price, current_price,
                       fail_at, low)

\* alerts.py:262-269: the record of the token after a successful price fetch
\* a record that keeps the price it was created with
RecordPriceOnce(data, token_address, price_data) ==
    IF token_address \in DOMAIN data THEN data
    ELSE Put(data, token_address, [price_eth |-> price_data.price_in_eth,
                                   price_usd |-> price_data.price_in_usd])

RecordPrice(data, token_address, price_data) ==
    LET old == Get(data, token_address, EmptyDict)
    IN Put(data, token_address,
           Put(Put(old, "price_eth", price_data.price_in_eth),
               "price_usd", price_data.price_in_usd))

\* alerts.py:255-312 for the tokens of the list keys: [data, events, errors]
RECURSIVE CheckPriceTokens(_, _, _, _, _)
CheckPriceTokens(keys, alerts_by_token, quote, fail_at, acc) ==
    IF keys = <<>> THEN acc
    ELSE LET t == Head(keys)
         IN IF quote[t] = Fail
            THEN \* get_token_price raises: alerts.py:311
                 CheckPriceTokens(Tail(keys), alerts_by_token, quote, fail_at,
                                  [acc EXCEPT !.errors = @ \cup {t}])
            ELSE LET price_data == PriceData(quote[t][1])
                     current_price == price_data.price_in_eth
                     previous_price == Get(Get(acc.data, t, EmptyDict), "price_eth",
                                           current_price)
                     scan == ScanAlerts(alerts_by_token[t], 1, t, previous_price,
                                        current_price, fail_at[t],
                                        [events |-> acc.events, calls |-> 0,
                                         raised |-> FALSE])
                 IN CheckPriceTokens(Tail(keys), alerts_by_token, quote, fail_at,
                        [data |-> RecordPrice(acc.data, t, price_data),
                         events |-> scan.events,
                         errors |-> IF scan.raised THEN acc.errors \cup {t} ELSE acc.errors])

\* check_price_alerts without the try block of alerts.py:256-312: the first exception
\* ends the loop over the tokens
check_price_alerts_unguarded(alerts_by_token, data, quote, fail_at) ==
    LET keys == KeyList(DOMAIN alerts_by_token)
        start == [data |-> data, events |-> <<>>, errors |-> {}]
        full == CheckPriceTokens(keys, alerts_by_token, quote, fail_at, start)
        failing == {i \in 1..Len(keys) : keys[i] \in full.errors}
    IN IF failing = {} THEN full
       ELSE CheckPriceTokens(SubSeq(keys, 1, CHOOSE i \in failing : \A j \in failing : i <= j),
                             alerts_by_token, quote, fail_at, start)

\* check_price_alerts (alerts.py:244-317)
check_price_alerts(alerts_by_token, data, quote, fail_at) ==
    CheckPriceTokens(KeyList(DOMAIN alerts_by_token), alerts_by_token, quote, fail_at,
                     [data |-> data, events |-> <<>>, errors |-> {}])

\* alerts.py:364-374 (change_percent and message are derived from the two liquidities)
LiquidityEvent(telegram_id, token_address, previous_liquidity, current_liquidity) ==
    [type |-> "liquidity_change", telegram_id |-> telegram_id,
     token_address |-> token_address, previous_liquidity |-> previous_liquidity,
     current_liquidity |-> current_liquidity]

\* alerts.py:355-358
AlertUsers(alerts_by_token, token_address) ==
    IF token_address \in DOMAIN alerts_by_token
    THEN {alerts_by_token[token_address][i].telegram_id :
             i \in 1..Len(alerts_by_token[token_address])}
    ELSE {}

\* alerts.py:361-374: one event per user
LiquidityEvents(user_list, token_address, previous_liquidity, current_liquidity) ==
    [i \in 1..Len(user_list) |->
        LiquidityEvent(user_list[i], token_address, previous_liquidity, current_liquidity)]

\* alerts.py:340-341
RecordLiquidity(data, token_address, liquidity_data) ==
    Put(data, token_address,
        Put(Put(data[token_address], "eth_liquidity", liquidity_data.eth_liquidity),
            "token_liquidity", liquidity_data.token_liquidity))

\* alerts.py:330-377 for the tokens of the list keys: [data, events, errors]
RECURSIVE CheckLiquidityTokens(_, _, _, _, _)
CheckLiquidityTokens(keys, alerts_by_token, liq, info_fails, acc) ==
    IF keys = <<>> THEN acc
    ELSE LET t == Head(keys)
         IN IF liq[t] = Fail
            THEN \* get_token_liquidity raises: alerts.py:376
                 CheckLiquidityTokens(Tail(keys), alerts_by_token, liq, info_fails,
                                      [acc EXCEPT !.errors = @ \cup {t}])
            ELSE LET liquidity_data == LiquidityData(liq[t][1])
                     current == liquidity_data.eth_liquidity
                     previous == Get(acc.data[t], "eth_liquidity", current)
                     significant == IsSignificant(previous, current)
                     raised == significant /\ info_fails[t]
                     events == IF significant /\ ~raised
                               THEN LiquidityEvents(KeyList(AlertUsers(alerts_by_token, t)),
                                                    t, previous, current)
                               ELSE <<>>
                 IN CheckLiquidityTokens(Tail(keys), alerts_by_token, liq, info_fails,
                        [data |-> RecordLiquidity(acc.data, t, liquidity_data),
                         events |-> acc.events \o events,
                         errors |-> IF raised THEN acc.errors \cup {t} ELSE acc.errors])

\* check_liquidity_changes (alerts.py:319-382)
check_liquidity_changes(alerts_by_token, data, liq, info_fails) ==
    CheckLiquidityTokens(KeyList(DOMAIN data), alerts_by_token, liq, info_fails,
                         [data |-> data, events |-> <<>>, errors |-> {}])

\* One iteration of start_alert_monitoring (alerts.py:393-421): no statement between
\* the two checks and the sleep yields to the event loop.
\*   quote, liq: what the feeds return for each token (Some(value) or Fail);
\*   price_fail_at: the number of the get_token_info call that raises while the
\*       token's price alerts are checked (0: none);
\*   liq_info_fails: get_token_info raises while the token's liquidity is checked
alert_monitoring_cycle(quote, liq, price_fail_at, liq_info_fails) ==
    LET price == check_price_alerts(price_alerts, token_data, quote, price_fail_at)
        liquidity == check_liquidity_changes(price_alerts, price.data, liq, liq_info_fails)
    IN /\ token_data' = liquidity.data
       /\ triggered_alerts' = price.events
       /\ liquidity_alerts' = liquidity.events
       /\ last' = [op |-> "alert_monitoring_cycle", result |-> "ok",
                   errors |-> {<<"price", t>> : t \in price.errors}
                              \cup {<<"liquidity", t>> : t \in liquidity.errors},
                   quote |-> quote]
       /\ UNCHANGED <<users, price_alerts, copy_vars>>

----------------------------------------------------------------------------
(* The handlers that write the users table *)

\* handlers.py:54 start_command -> create_user (database/operations.py:11-28)
create_user(telegram_id) ==
    /\ telegram_id \notin DOMAIN users
    /\ users' = Put(users, telegram_id, NoWalletRow)
    /\ last' = [op |-> "create_user", result |-> "ok", errors |-> {}, quote |-> None]
    /\ UNCHANGED <<alert_vars, copy_vars>>

\* handlers.py:282 -> update_user_wallet (database/operations.py:39-52)
update_user_wallet(telegram_id) ==
    /\ telegram_id \in DOMAIN users
    /\ users' = Put(users, telegram_id, WalletRow(telegram_id))
    /\ last' = [op |-> "update_user_wallet", result |-> "ok", errors |-> {}, quote |-> None]
    /\ UNCHANGED <<alert_vars, copy_vars>>

----------------------------------------------------------------------------
(* src/trading/copytrade.py *)

\* copytrade.py:32  slippage_guard: float = 5.0
DefaultSlippage == 5
\* copytrade.py:33  max_eth_per_trade: float = 0.1, in tenths of an ETH
DefaultMaxEth == 1

TargetWallets == {"W1", "W2"}
\* what web3_client.is_address rejects (copytrade.py:49)
InvalidWallet == "not an address"
\* 42 characters that start with "0x" and are not an address
MalformedWallet == "0x, then 40 characters that are not hexadecimal digits"
\* web3_client.is_address (web3_client.py:36-38)
is_address(address) == address \in TargetWallets
\* a transaction is identified by its hash, which determines its sender
Transactions == {[hash |-> "h1", from |-> "W1"], [hash |-> "h2", from |-> "W2"]}

\* database/operations.py:183-204: the row of create_copy_trade_config
ConfigRow(telegram_id, target_wallet, slippage_guard, active, sandbox_mode, max_eth_per_trade) ==
    [telegram_id |-> telegram_id, target_wallet |-> target_wallet,
     slippage_guard |-> slippage_guard, active |-> active,
     sandbox_mode |-> sandbox_mode, max_eth_per_trade |-> max_eth_per_trade]

\* database/operations.py:206-225 update_copy_trade_config: the fields given are set
UpdatedRow(row, active, slippage_guard, sandbox_mode, max_eth_per_trade) ==
    [row EXCEPT !.active = IF active # None THEN active[1] ELSE @,
                !.slippage_guard = IF slippage_guard # None THEN slippage_guard[1] ELSE @,
                !.sandbox_mode = IF sandbox_mode # None THEN sandbox_mode[1] ELSE @,
                !.max_eth_per_trade = IF max_eth_per_trade # None
                                      THEN max_eth_per_trade[1] ELSE @]

\* copytrade.py:77-83: the in-memory configuration appended by setup_copy_trading
UserConfig(telegram_id, config_id, slippage_guard, max_eth_per_trade, sandbox_mode) ==
    [telegram_id |-> telegram_id, config_id |-> config_id,
     slippage_guard |-> slippage_guard, max_eth_per_trade |-> max_eth_per_trade,
     sandbox_mode |-> sandbox_mode]

\* setup_copy_trading (copytrade.py:32-100); the table is capped at MaxConfigs rows
setup_copy_trading(telegram_id, target_wallet, slippage_guard, max_eth_per_trade, sandbox_mode) ==
    /\ Len(configs) < MaxConfigs
    /\ UNCHANGED <<users, alert_vars, processed_transactions, copy_trades>>
    /\ IF ~is_address(target_wallet)
       THEN /\ last' = [op |-> "setup_copy_trading", result |-> "Invalid wallet address"]
            /\ UNCHANGED <<configs, monitored_wallets>>
       ELSE IF LET user == get_user_by_telegram_id(telegram_id)
               IN user = None \/ user[1].wallet_address = None
       THEN /\ last' = [op |-> "setup_copy_trading", result |-> "No wallet found"]
            /\ UNCHANGED <<configs, monitored_wallets>>
       ELSE /\ configs' = Append(configs, ConfigRow(telegram_id, target_wallet,
                              slippage_guard, TRUE, sandbox_mode, max_eth_per_trade))
            /\ monitored_wallets' =
                  Put(monitored_wallets, target_wallet,
                      Append(Get(monitored_wallets, target_wallet, <<>>),
                             UserConfig(telegram_id, Len(configs) + 1, slippage_guard,
                                        max_eth_per_trade, sandbox_mode)))
            /\ last' = [op |-> "setup_copy_trading", result |-> "success"]

\* a mutant of Deactivate: the configuration stays in the list
DeactivateKeeping(wallets, wallet, i) == wallets

\* copytrade.py:150-152: pop the i-th configuration of the wallet, delete the wallet's
\* key if its list is then empty
Deactivate(wallets, wallet, i) ==
    LET rest == Pop(wallets[wallet], i)
    IN IF rest = <<>> THEN Del(wallets, wallet) ELSE Put(wallets, wallet, rest)

\* copytrade.py:153-163: the fields set on the configuration that stays in its list.
\* The key "active" that copytrade.py:154 adds on a resume is read by no code (the
\* loop of process_transaction reads the four other fields) and is left out.
UpdatedUserConfig(cfg, active, slippage_guard, sandbox_mode, max_eth_per_trade) ==
    LET c2 == IF slippage_guard # None THEN Put(cfg, "slippage_guard", slippage_guard[1])
              ELSE cfg
        c3 == IF sandbox_mode # None THEN Put(c2, "sandbox_mode", sandbox_mode[1]) ELSE c2
    IN IF max_eth_per_trade # None THEN Put(c3, "max_eth_per_trade", max_eth_per_trade[1])
       ELSE c3

\* copytrade.py:144-165: [wallets, raised].  Deleting a key of monitored_wallets inside
\* the loop over monitored_wallets.items() makes the loop's next step raise
\* RuntimeError (dictionary changed size during iteration).
UpdateMonitored(wallets, config_id, active, slippage_guard, sandbox_mode, max_eth_per_trade) ==
    LET hits == {<<w, i>> \in (DOMAIN wallets) \X (1..MaxConfigs) :
                    i <= Len(wallets[w]) /\ wallets[w][i]["config_id"] = config_id}
    IN IF hits = {} THEN [wallets |-> wallets, raised |-> FALSE]
       ELSE LET h == CHOOSE x \in hits : TRUE
                w == h[1]
                i == h[2]
            IN IF active # None /\ ~active[1]
               THEN LET after == Deactivate(wallets, w, i)
                    IN [wallets |-> after, raised |-> DOMAIN after # DOMAIN wallets]
               ELSE [wallets |-> Put(wallets, w,
                                     [wallets[w] EXCEPT ![i] =
                                         UpdatedUserConfig(@, active, slippage_guard,
                                                           sandbox_mode, max_eth_per_trade)]),
                     raised |-> FALSE]

\* update_copy_trading (copytrade.py:102-182)
update_copy_trading(telegram_id, config_id, active, slippage_guard, sandbox_mode, max_eth_per_trade) ==
    LET args == [config_id |-> config_id, active |-> active,
                 slippage_guard |-> slippage_guard, sandbox_mode |-> sandbox_mode,
                 max_eth_per_trade |-> max_eth_per_trade]
    IN
    /\ UNCHANGED <<users, alert_vars, processed_transactions, copy_trades>>
    /\ IF get_user_by_telegram_id(telegram_id) = None
       THEN /\ last' = [op |-> "update_copy_trading", result |-> "User not found",
                        args |-> args]
            /\ UNCHANGED <<configs, monitored_wallets>>
       ELSE IF config_id \notin 1..Len(configs)
       THEN /\ last' = [op |-> "update_copy_trading", result |-> "Configuration not found",
                        args |-> args]
            /\ UNCHANGED <<configs, monitored_wallets>>
       ELSE LET loop == UpdateMonitored(monitored_wallets, config_id, active,
                                        slippage_guard, sandbox_mode, max_eth_per_trade)
            IN /\ configs' = [configs EXCEPT ![config_id] =
                                 UpdatedRow(@, active, slippage_guard, sandbox_mode,
                                            max_eth_per_trade)]
               /\ monitored_wallets' = loop.wallets
               /\ last' = [op |-> "update_copy_trading",
                           result |-> IF loop.raised THEN "Error updating copy trading"
                                      ELSE "success",
                           args |-> args]

\* a mutant of AlreadyProcessed: no transaction counts as processed
AlreadyProcessedNever(tx_hash) == FALSE

\* copytrade.py:243
AlreadyProcessed(tx_hash) == tx_hash \in processed_transactions

\* a mutant of RealTradeBranch: the branch is taken for every configuration
RealTradeBranchAlways(sandbox_mode) == TRUE

\* copytrade.py:284  if not sandbox_mode: the branch where the trade is to be executed
RealTradeBranch(sandbox_mode) == ~sandbox_mode

\* copytrade.py:270-271
HasWalletAndKey(telegram_id) ==
    /\ get_user_by_telegram_id(telegram_id) # None
    /\ users[telegram_id].wallet_address # None
    /\ users[telegram_id].encrypted_private_key # None

\* copytrade.py:282-285: the mirror step of one configuration for one transaction
MirrorStep(user_config, tx_hash) ==
    [config_id |-> user_config["config_id"], telegram_id |-> user_config["telegram_id"],
     tx_hash |-> tx_hash, slippage_guard |-> user_config["slippage_guard"],
     max_eth_per_trade |-> user_config["max_eth_per_trade"],
     sandbox_mode |-> user_config["sandbox_mode"],
     real_trade |-> RealTradeBranch(user_config["sandbox_mode"])]

\* copytrade.py:263-285: the mirror steps of the loop over the wallet's configurations;
\* the user lookup of iteration fail_at raises and ends the loop (copytrade.py:290)
MirrorSteps(copying_users, tx_hash, fail_at) ==
    LET n == IF fail_at \in 1..Len(copying_users) THEN fail_at - 1 ELSE Len(copying_users)
        reached == SelectSeq(SubSeq(copying_users, 1, n),
                             LAMBDA c : HasWalletAndKey(c["telegram_id"]))
    IN [k \in 1..Len(reached) |-> MirrorStep(reached[k], tx_hash)]

\* process_transaction (copytrade.py:233-291)
process_transaction(transaction, fail_at) ==
    LET tx_hash == transaction.hash
        from_address == transaction.from
    IN
    /\ UNCHANGED <<users, alert_vars, configs, monitored_wallets>>
    /\ IF AlreadyProcessed(tx_hash)
       THEN /\ last' = [op |-> "process_transaction", result |-> "already processed",
                        transaction |-> transaction, mirrored |-> <<>>]
            /\ UNCHANGED <<processed_transactions, copy_trades>>
       ELSE LET copying_users == Get(monitored_wallets, from_address, <<>>)
                mirrored == MirrorSteps(copying_users, tx_hash, fail_at)
                keys == {<<mirrored[k].config_id, tx_hash>> : k \in 1..Len(mirrored)}
            IN /\ processed_transactions' = processed_transactions \cup {tx_hash}
               /\ copy_trades' = [k \in DOMAIN copy_trades \cup keys |->
                                     Get(copy_trades, k, 0) + IF k \in keys THEN 1 ELSE 0]
               /\ last' = [op |-> "process_transaction",
                           result |-> IF fail_at \in 1..Len(copying_users)
                                      THEN "Error processing transaction" ELSE "ok",
                           transaction |-> transaction, mirrored |-> mirrored]

----------------------------------------------------------------------------
(* The conversation of src/bot/alert_handlers.py that registers a price alert *)

\* the numbers the users type, each in the unit of the field it is typed into: a
\* price in units of 0.0005 ETH, a slippage in percent, an amount in tenths of an ETH
Number == [text \in {"0", "0.0005", "-0.0005", "5", "50", "51", "0.1", "-0.1"} |->
              CASE text = "0" -> 0
                [] text \in {"0.0005", "0.1"} -> 1
                [] text \in {"-0.0005", "-0.1"} -> -1
                [] text = "5" -> 5
                [] text = "50" -> 50
                [] text = "51" -> 51]

\* float(text): Some(value), or Fail when it raises ValueError
float(text) ==
    IF text = "nan" THEN Some(NaN)
    ELSE IF text \in DOMAIN Number THEN Some(Number[text])
    ELSE Fail

\* no conversation is going on, context.user_data is empty
NoConversation == [alert |-> "END", mirror |-> "END", user_data |-> EmptyDict]

\* what is typed as a price threshold
PriceTexts == {"skip", "abc", "nan", "0", "0.0005", "-0.0005"}

\* add_alert_command (alert_handlers.py:78-88), the token address given as argument
add_alert_command(telegram_id, token_address) ==
    /\ conversations[telegram_id].alert = "END"
    /\ conversations' = [conversations EXCEPT
           ![telegram_id].alert = "PRICE_HIGH",
           ![telegram_id].user_data = Put(@, "alert_token_address", token_address)]
    /\ last' = [op |-> "add_alert_command", result |-> "PRICE_HIGH"]
    /\ UNCHANGED <<users, alert_vars, copy_vars, chain, tasks, running>>

\* alert_handlers.py:118-133 and 143-158: the threshold typed, None for "skip", Fail
\* when the text is rejected
ThresholdInput(text) ==
    IF text = "skip" THEN Some(None)
    ELSE LET price == float(text)
         IN IF price = Fail THEN Fail
            ELSE IF FloatLe(price[1], 0) THEN Fail
            ELSE Some(price)

\* price_high_input (alert_handlers.py:116-139)
price_high_input(telegram_id, text) ==
    /\ conversations[telegram_id].alert = "PRICE_HIGH"
    /\ LET price_high == ThresholdInput(text)
       IN IF price_high = Fail
          THEN /\ last' = [op |-> "price_high_input", result |-> "PRICE_HIGH"]
               /\ UNCHANGED conversations
          ELSE /\ conversations' = [conversations EXCEPT
                      ![telegram_id].alert = "PRICE_LOW",
                      ![telegram_id].user_data = Put(@, "alert_price_high", price_high[1])]
               /\ last' = [op |-> "price_high_input", result |-> "PRICE_LOW"]
    /\ UNCHANGED <<users, alert_vars, copy_vars, chain, tasks, running>>

\* price_low_input (alert_handlers.py:141-199)
price_low_input(telegram_id, text) ==
    /\ conversations[telegram_id].alert = "PRICE_LOW"
    /\ LET price_low == ThresholdInput(text)
       IN IF price_low = Fail
          THEN /\ last' = [op |-> "price_low_input", result |-> "PRICE_LOW"]
               /\ UNCHANGED conversations
          ELSE LET data == Put(conversations[telegram_id].user_data, "alert_price_low",
                               price_low[1])
                   \* alert_handlers.py:161
                   none_set == data["alert_price_high"] = None /\ data["alert_price_low"] = None
                   state == IF none_set THEN "PRICE_HIGH" ELSE "WATCHLIST_NAME"
               IN /\ conversations' = [conversations EXCEPT ![telegram_id].alert = state,
                                                            ![telegram_id].user_data = data]
                  /\ last' = [op |-> "price_low_input", result |-> state]
    /\ UNCHANGED <<users, alert_vars, copy_vars, chain, tasks, running>>

\* alert_handlers.py:282-293
ClearAlertData(data) ==
    Del(Del(Del(Del(data, "alert_token_address"), "alert_price_high"), "alert_price_low"),
        "alert_watchlist")

\* watchlist_button and confirm_alert (alert_handlers.py:201-224 and 239-295): the
\* call of add_price_alert; wl, info_ok, quote, liq as for add_price_alert
confirm_alert(telegram_id, wl, info_ok, quote, liq) ==
    /\ conversations[telegram_id].alert = "WATCHLIST_NAME"
    /\ LET data == conversations[telegram_id].user_data
       IN add_price_alert(telegram_id, data["alert_token_address"], data["alert_price_high"],
                          data["alert_price_low"], wl, info_ok, quote, liq)
    /\ conversations' = [conversations EXCEPT ![telegram_id].alert = "END",
                                              ![telegram_id].user_data = ClearAlertData(@)]
    /\ UNCHANGED <<chain, tasks, running>>

\* the fallback /cancel (alert_handlers.py:344)
cancel_alert(telegram_id) ==
    /\ conversations[telegram_id].alert # "END"
    /\ conversations' = [conversations EXCEPT ![telegram_id].alert = "END"]
    /\ last' = [op |-> "cancel", result |-> "END"]
    /\ UNCHANGED <<users, alert_vars, copy_vars, chain, tasks, running>>

----------------------------------------------------------------------------
(* The conversation of src/bot/copytrade_handlers.py that sets up copy trading *)

\* what is typed as a wallet address, a slippage and an amount of ETH
WalletTexts == {"W1", InvalidWallet, MalformedWallet}
SlippageTexts == {"abc", "nan", "0", "50", "51"}
EthTexts == {"abc", "nan", "0", "0.1", "-0.1"}

\* copytrade_handlers.py:25 and 49: text.startswith("0x") and len(text) == 42
LooksLikeAddress(text) == text \in TargetWallets \cup {MalformedWallet}

\* mirror_command (copytrade_handlers.py:18-36), the wallet address given as argument
mirror_command(telegram_id, text) ==
    /\ conversations[telegram_id].mirror = "END"
    /\ LET state == IF LooksLikeAddress(text) THEN "SLIPPAGE_GUARD" ELSE "TARGET_WALLET"
       IN /\ conversations' = [conversations EXCEPT
                 ![telegram_id].mirror = state,
                 ![telegram_id].user_data = Put(@, "mirror_target_wallet", text)]
          /\ last' = [op |-> "mirror_command", result |-> state]
    /\ UNCHANGED <<users, alert_vars, copy_vars, chain, tasks, running>>

\* target_wallet_input (copytrade_handlers.py:44-62)
target_wallet_input(telegram_id, text) ==
    /\ conversations[telegram_id].mirror = "TARGET_WALLET"
    /\ IF ~LooksLikeAddress(text)
       THEN /\ last' = [op |-> "target_wallet_input", result |-> "TARGET_WALLET"]
            /\ UNCHANGED conversations
       ELSE /\ conversations' = [conversations EXCEPT
                   ![telegram_id].mirror = "SLIPPAGE_GUARD",
                   ![telegram_id].user_data = Put(@, "mirror_target_wallet", text)]
            /\ last' = [op |-> "target_wallet_input", result |-> "SLIPPAGE_GUARD"]
    /\ UNCHANGED <<users, alert_vars, copy_vars, chain, tasks, running>>

\* copytrade_handlers.py:74  slippage < 0.1 or slippage > 50, the slippage in percent
SlippageRejected(slippage) ==
    (slippage # NaN /\ 10 * slippage < 1) \/ FloatLt(50, slippage)

\* slippage_guard_input (copytrade_handlers.py:64-88); a message has a text that is
\* not blank, so the default of line 71 is not taken
slippage_guard_input(telegram_id, text) ==
    /\ conversations[telegram_id].mirror = "SLIPPAGE_GUARD"
    /\ LET slippage == float(text)
       IN IF slippage = Fail \/ (slippage # Fail /\ SlippageRejected(slippage[1]))
          THEN /\ last' = [op |-> "slippage_guard_input", result |-> "SLIPPAGE_GUARD"]
               /\ UNCHANGED conversations
          ELSE /\ conversations' = [conversations EXCEPT
                      ![telegram_id].mirror = "MAX_ETH",
                      ![telegram_id].user_data = Put(@, "mirror_slippage_guard", slippage[1])]
               /\ last' = [op |-> "slippage_guard_input", result |-> "MAX_ETH"]
    /\ UNCHANGED <<users, alert_vars, copy_vars, chain, tasks, running>>

\* max_eth_input (copytrade_handlers.py:90-122)
max_eth_input(telegram_id, text) ==
    /\ conversations[telegram_id].mirror = "MAX_ETH"
    /\ LET max_eth == float(text)
       IN IF max_eth = Fail \/ (max_eth # Fail /\ FloatLe(max_eth[1], 0))
          THEN /\ last' = [op |-> "max_eth_input", result |-> "MAX_ETH"]
               /\ UNCHANGED conversations
          ELSE /\ conversations' = [conversations EXCEPT
                      ![telegram_id].mirror = "SANDBOX_MODE",
                      ![telegram_id].user_data = Put(@, "mirror_max_eth", max_eth[1])]
               /\ last' = [op |-> "max_eth_input", result |-> "SANDBOX_MODE"]
    /\ UNCHANGED <<users, alert_vars, copy_vars, chain, tasks, running>>

\* sandbox_mode_button (copytrade_handlers.py:124-161)
sandbox_mode_button(telegram_id, sandbox_yes) ==
    /\ conversations[telegram_id].mirror = "SANDBOX_MODE"
    /\ conversations' = [conversations EXCEPT
           ![telegram_id].mirror = "CONFIRM_SETUP",
           ![telegram_id].user_data = Put(@, "mirror_sandbox_mode", sandbox_yes)]
    /\ last' = [op |-> "sandbox_mode_button", result |-> "CONFIRM_SETUP"]
    /\ UNCHANGED <<users, alert_vars, copy_vars, chain, tasks, running>>

\* copytrade_handlers.py:205-216
ClearMirrorData(data) ==
    Del(Del(Del(Del(data, "mirror_target_wallet"), "mirror_slippage_guard"),
            "mirror_max_eth"), "mirror_sandbox_mode")

\* confirm_setup_button (copytrade_handlers.py:163-218)
confirm_setup_button(telegram_id, confirm_mirror_yes) ==
    /\ conversations[telegram_id].mirror = "CONFIRM_SETUP"
    /\ IF ~confirm_mirror_yes
       THEN /\ conversations' = [conversations EXCEPT ![telegram_id].mirror = "END"]
            /\ last' = [op |-> "confirm_setup_button", result |-> "cancelled"]
            /\ UNCHANGED <<users, alert_vars, copy_vars>>
       ELSE /\ LET data == conversations[telegram_id].user_data
               IN setup_copy_trading(telegram_id, data["mirror_target_wallet"],
                                     data["mirror_slippage_guard"], data["mirror_max_eth"],
                                     data["mirror_sandbox_mode"])
            /\ conversations' = [conversations EXCEPT
                   ![telegram_id].mirror = "END",
                   ![telegram_id].user_data = ClearMirrorData(@)]
    /\ UNCHANGED <<chain, tasks, running>>

\* the fallback /cancel (copytrade_handlers.py:369)
cancel_mirror(telegram_id) ==
    /\ conversations[telegram_id].mirror # "END"
    /\ conversations' = [conversations EXCEPT ![telegram_id].mirror = "END"]
    /\ last' = [op |-> "cancel", result |-> "END"]
    /\ UNCHANGED <<users, alert_vars, copy_vars, chain, tasks, running>>

----------------------------------------------------------------------------
(* The tasks of src/bot/bot.py and the loop of start_monitoring *)

\* a task created by asyncio.create_task: its coroutine, where the coroutine stands
\* ("try": at the head of the loop's try block, "sleep": in asyncio.sleep(delay)) and
\* its local variable latest_block (copytrade.py:309)
Task(coro) == [coro |-> coro, pc |-> "try", delay |-> 0, latest_block |-> None]

\* bot.py:40-41
main == <<Task("start_monitoring"), Task("start_alert_monitoring")>>

\* copytrade.py:315  await asyncio.sleep(5)
CopySleep == 5
\* copytrade.py:319  await asyncio.sleep(10)
CopyErrorSleep == 10

\* a block is mined: transactions that are in no block yet
mine(txs) ==
    /\ Len(chain) < MaxHeight
    /\ \A b \in 1..Len(chain) : chain[b] \cap txs = {}
    /\ chain' = Append(chain, txs)
    /\ UNCHANGED <<users, alert_vars, copy_vars, last, conversations, tasks, running>>

\* the timer of a task fires whether or not the task has reached its sleep: the
\* next cycle of the loop starts at the head of the loop
wake_on_timer(i) ==
    /\ tasks[i].pc \in {"sleep", "check_price_alerts"}
    /\ tasks' = [tasks EXCEPT ![i].pc = "try", ![i].delay = 0]
    /\ UNCHANGED <<users, alert_vars, copy_vars, last, conversations, chain, running>>

\* the task's asyncio.sleep returns: the loop goes to its next iteration
wake(i) ==
    /\ tasks[i].pc = "sleep"
    /\ tasks' = [tasks EXCEPT ![i].pc = "try", ![i].delay = 0]
    /\ UNCHANGED <<users, alert_vars, copy_vars, last, conversations, chain, running>>

\* The loop of start_monitoring without the except clause of copytrade.py:317-319:
\* the exception of the read of the chain head ends the task
start_monitoring_without_except(i, head_ok) ==
    /\ tasks[i].coro = "start_monitoring" /\ tasks[i].pc = "try"
    /\ IF head_ok
       THEN /\ tasks' = [tasks EXCEPT ![i].latest_block = Some(Len(chain)),
                                      ![i].pc = "sleep", ![i].delay = CopySleep]
            /\ last' = [op |-> "start_monitoring", result |-> "ok", task |-> i]
       ELSE /\ tasks' = [tasks EXCEPT ![i].pc = "done"]
            /\ last' = [op |-> "start_monitoring", result |-> "Error in monitoring loop",
                        task |-> i]
    /\ UNCHANGED <<users, alert_vars, copy_vars, conversations, chain, running>>

\* One iteration of the loop of start_monitoring (copytrade.py:306-319), up to its
\* sleep.  head_ok: web3_client.w3.eth.block_number returns (the number of blocks of
\* the chain); otherwise it raises.
start_monitoring_iteration(i, head_ok) ==
    /\ tasks[i].coro = "start_monitoring" /\ tasks[i].pc = "try"
    /\ IF head_ok
       THEN /\ tasks' = [tasks EXCEPT ![i].latest_block = Some(Len(chain)),
                                      ![i].pc = "sleep", ![i].delay = CopySleep]
            /\ last' = [op |-> "start_monitoring", result |-> "ok", task |-> i]
       ELSE /\ tasks' = [tasks EXCEPT ![i].pc = "sleep", ![i].delay = CopyErrorSleep]
            /\ last' = [op |-> "start_monitoring", result |-> "Error in monitoring loop",
                        task |-> i]
    /\ UNCHANGED <<users, alert_vars, copy_vars, conversations, chain, running>>

\* alerts.py:421  await asyncio.sleep(60)
AlertSleep == 60
\* alerts.py:425  await asyncio.sleep(120)
AlertErrorSleep == 120

\* One iteration of the loop of start_alert_monitoring (alerts.py:393-425), up to its
\* sleep: the two checks and the notifications (which only log), or, with raised, an
\* exception that reaches the except clause of alerts.py:423 before a check has
\* changed anything.
start_alert_monitoring_iteration(i, quote, liq, price_fail_at, liq_info_fails, raised) ==
    /\ tasks[i].coro = "start_alert_monitoring" /\ tasks[i].pc = "try"
    /\ IF raised
       THEN /\ tasks' = [tasks EXCEPT ![i].pc = "sleep", ![i].delay = AlertErrorSleep]
            /\ last' = [op |-> "start_alert_monitoring",
                        result |-> "Error in alert monitoring loop", task |-> i]
            /\ UNCHANGED <<users, alert_vars, copy_vars>>
       ELSE /\ alert_monitoring_cycle(quote, liq, price_fail_at, liq_info_fails)
            /\ tasks' = [tasks EXCEPT ![i].pc = "sleep", ![i].delay = AlertSleep]
    /\ UNCHANGED <<conversations, chain, running>>

\* the loop of alerts.py:403-417 without its try block: the first notification that
\* raises ends the loop and the exception leaves the cycle
NotifyUnguarded(all_alerts, fail_at) ==
    IF fail_at \in 1..Len(all_alerts)
    THEN [handed |-> SubSeq(all_alerts, 1, fail_at), sent |-> SubSeq(all_alerts, 1, fail_at - 1),
          raised |-> TRUE]
    ELSE [handed |-> all_alerts, sent |-> all_alerts, raised |-> FALSE]

\* alerts.py:402-417: every alert of all_alerts enters the try block of the
\* notification (handed); the one whose notification raises, if any, is logged as an
\* error, the others are logged as sent; nothing is raised to the cycle
Notify(all_alerts, fail_at) ==
    [handed |-> all_alerts,
     sent |-> SubSeq(all_alerts, 1, fail_at - 1) \o SubSeq(all_alerts, fail_at + 1, Len(all_alerts)),
     raised |-> FALSE]

\* One iteration of the loop of start_alert_monitoring with its notifications
\* (alerts.py:393-425; the bot is the one of bot.py:41): handed and sent are the
\* alerts given to the notification step and those it logged in this iteration
start_alert_monitoring_notifying(i, quote, liq, price_fail_at, liq_info_fails, notify_fail_at) ==
    /\ tasks[i].coro = "start_alert_monitoring" /\ tasks[i].pc = "try"
    /\ alert_monitoring_cycle(quote, liq, price_fail_at, liq_info_fails)
    /\ notify_fail_at <= Len(triggered_alerts') + Len(liquidity_alerts')
    /\ LET n == Notify(triggered_alerts' \o liquidity_alerts', notify_fail_at)
       IN tasks' = [tasks EXCEPT ![i] =
                       [coro |-> tasks[i].coro, pc |-> "sleep",
                        delay |-> IF n.raised THEN AlertErrorSleep ELSE AlertSleep,
                        latest_block |-> None, handed |-> n.handed, sent |-> n.sent]]
    /\ UNCHANGED <<conversations, chain, running>>

----------------------------------------------------------------------------
(* The event loop of asyncio.run (bot.py:55): the coroutines statement by statement *)

\* the event loop is idle (running = 0) or gives its turn to the task that holds it: a
\* coroutine keeps the event loop until it awaits something that suspends it
CanRun(i) == running \in {0, i}

\* alerts.py:396, 255: the cycle of start_alert_monitoring enters check_price_alerts,
\* whose for loop iterates over price_alerts.items(); keys are the tokens still to
\* visit, iterated is the dictionary as the iteration found it, events and errors are
\* the list of triggered alerts and the failed tokens so far
check_price_alerts_begin(i) ==
    /\ tasks[i].coro = "start_alert_monitoring" /\ tasks[i].pc = "try"
    /\ CanRun(i)
    /\ running' = i
    /\ tasks' = [tasks EXCEPT ![i] =
                    [coro |-> tasks[i].coro, pc |-> "check_price_alerts", delay |-> 0,
                     latest_block |-> None, keys |-> KeyList(DOMAIN price_alerts),
                     iterated |-> price_alerts, events |-> <<>>, errors |-> {}]]
    /\ UNCHANGED <<users, alert_vars, copy_vars, last, conversations, chain>>

\* alerts.py:256-312: the body of the for loop for the next token
check_price_alerts_token(i, quote, fail_at) ==
    /\ tasks[i].pc = "check_price_alerts" /\ tasks[i].keys # <<>>
    /\ running = i
    /\ LET t == Head(tasks[i].keys)
           r == CheckPriceTokens(<<t>>, price_alerts, [x \in Tokens |-> quote],
                                 [x \in Tokens |-> fail_at],
                                 [data |-> token_data, events |-> tasks[i].events,
                                  errors |-> {}])
       IN /\ token_data' = r.data
          /\ tasks' = [tasks EXCEPT ![i].keys = Tail(@), ![i].events = r.events,
                                    ![i].errors = @ \cup {<<"price", x>> : x \in r.errors}]
    /\ UNCHANGED <<users, price_alerts, triggered_alerts, liquidity_alerts, copy_vars, last,
                   conversations, chain, running>>

\* alerts.py:399-421: after the last token, check_liquidity_changes, the
\* notifications (which only log) and the sleep, which gives the event loop back
check_liquidity_changes_and_sleep(i, liq, info_fails) ==
    /\ tasks[i].pc = "check_price_alerts" /\ tasks[i].keys = <<>>
    /\ running = i
    /\ running' = 0
    /\ LET r == check_liquidity_changes(price_alerts, token_data, liq, info_fails)
       IN /\ token_data' = r.data
          /\ triggered_alerts' = tasks[i].events
          /\ liquidity_alerts' = r.events
          /\ last' = [op |-> "alert_monitoring_cycle", result |-> "ok",
                      errors |-> tasks[i].errors
                                 \cup {<<"liquidity", x>> : x \in r.errors},
                      quote |-> None]
    /\ tasks' = [tasks EXCEPT ![i] = [Task(tasks[i].coro) EXCEPT !.pc = "sleep",
                                                                 !.delay = AlertSleep]]
    /\ UNCHANGED <<users, price_alerts, copy_vars, conversations, chain>>

\* alert[field] = value for the alert of the user on the token (the alert is the
\* object that the loop of alerts.py:92 found: once it has left price_alerts the
\* assignment no longer shows there)
AssignAlert(alerts_by_token, t, telegram_id, field, value) ==
    LET k == AlertIndex(Get(alerts_by_token, t, <<>>), telegram_id)
    IN IF k = 0 THEN alerts_by_token
       ELSE [alerts_by_token EXCEPT ![t][k][field] = value]

\* the task of the handler that the application runs for an update: a call of
\* add_price_alert that has reached the update of an existing alert (alerts.py:92-94)
\* with, in before, the thresholds it is about to replace
HandlerTask(telegram_id, token_address, price_high, price_low, before) ==
    [coro |-> "add_price_alert", pc |-> "price_high", telegram_id |-> telegram_id,
     token_address |-> token_address, price_high |-> price_high, price_low |-> price_low,
     before |-> before]

\* alerts.py:47-94: add_price_alert for a user who has an alert on the token, up to
\* the alert found by the loop of alerts.py:92; the application handles one update at
\* a time
add_price_alert_begin(telegram_id, token_address, price_high, price_low) ==
    /\ running = 0 /\ Len(tasks) = Len(main)
    /\ get_user_by_telegram_id(telegram_id) # None
    /\ AlertIndex(Get(price_alerts, token_address, <<>>), telegram_id) # 0
    /\ LET alerts == price_alerts[token_address]
           alert == alerts[AlertIndex(alerts, telegram_id)]
       IN tasks' = Append(tasks, HandlerTask(telegram_id, token_address, price_high,
                              price_low, <<alert.price_high, alert.price_low>>))
    /\ running' = Len(tasks) + 1
    /\ UNCHANGED <<users, alert_vars, copy_vars, last, conversations, chain>>

\* alerts.py:95 followed by an await that suspends the handler
add_price_alert_price_high_await(h) ==
    /\ h \in DOMAIN tasks /\ tasks[h].coro = "add_price_alert" /\ tasks[h].pc = "price_high"
    /\ CanRun(h)
    /\ running' = 0
    /\ price_alerts' = AssignAlert(price_alerts, tasks[h].token_address, tasks[h].telegram_id,
                                   "price_high", tasks[h].price_high)
    /\ tasks' = [tasks EXCEPT ![h].pc = "price_low"]
    /\ UNCHANGED <<users, token_data, triggered_alerts, liquidity_alerts, copy_vars, last,
                   conversations, chain>>

\* alerts.py:95  alert["price_high"] = price_high
add_price_alert_price_high(h) ==
    /\ h \in DOMAIN tasks /\ tasks[h].coro = "add_price_alert" /\ tasks[h].pc = "price_high"
    /\ CanRun(h)
    /\ running' = h
    /\ price_alerts' = AssignAlert(price_alerts, tasks[h].token_address, tasks[h].telegram_id,
                                   "price_high", tasks[h].price_high)
    /\ tasks' = [tasks EXCEPT ![h].pc = "price_low"]
    /\ UNCHANGED <<users, token_data, triggered_alerts, liquidity_alerts, copy_vars, last,
                   conversations, chain>>

\* alerts.py:96-107  alert["price_low"] = price_low, and the return, which ends the
\* handler's call
add_price_alert_price_low(h) ==
    /\ h \in DOMAIN tasks /\ tasks[h].coro = "add_price_alert" /\ tasks[h].pc = "price_low"
    /\ CanRun(h)
    /\ running' = 0
    /\ price_alerts' = AssignAlert(price_alerts, tasks[h].token_address, tasks[h].telegram_id,
                                   "price_low", tasks[h].price_low)
    /\ tasks' = SubSeq(tasks, 1, h - 1) \o SubSeq(tasks, h + 1, Len(tasks))
    /\ last' = [op |-> "add_price_alert", result |-> "updated", errors |-> {}, quote |-> None]
    /\ UNCHANGED <<users, token_data, triggered_alerts, liquidity_alerts, copy_vars,
                   conversations, chain>>

----------------------------------------------------------------------------
(* Specifications *)

Init ==
    /\ users = EmptyDict
    /\ price_alerts = EmptyDict
    /\ token_data = EmptyDict
    /\ triggered_alerts = <<>>
    /\ liquidity_alerts = <<>>
    /\ configs = <<>>
    /\ monitored_wallets = EmptyDict
    /\ processed_transactions = {}
    /\ copy_trades = EmptyDict
    /\ last = [op |-> "start", result |-> "ok", errors |-> {}, quote |-> None]
    /\ conversations = [u \in TelegramIds |-> NoConversation]
    /\ chain = <<>>
    /\ tasks = main
    /\ running = 0

\* tokens.py:72  the liquidity the mock feed returns
MockLiquidity == 10

Quotes == {Fail} \cup {Some(p) : p \in Prices}

\* The price alerts of one token: every threshold, every price, a constant liquidity.
\* A registration is given the answer of the price feed only where the code asks the
\* feed (alerts.py:117: the token has no record); the get_token_info call of a poll
\* that raises is one of the calls the poll can make (at most one per alert).
PriceToken == "T1"
NextPrice ==
    \/ \E u \in TelegramIds : create_user(u)
          /\ UNCHANGED shell_vars
    \/ \E u \in TelegramIds, h \in Thresholds, l \in Thresholds :
          \E q \in IF PriceToken \in DOMAIN token_data THEN {Fail} ELSE Quotes :
              add_price_alert(u, PriceToken, h, l, "no_name", TRUE, q, Some(MockLiquidity))
          /\ UNCHANGED shell_vars
    \/ \E u \in TelegramIds : remove_price_alert(u, PriceToken)
          /\ UNCHANGED shell_vars
    \/ \E q \in Quotes, f \in 0..Len(Get(price_alerts, PriceToken, <<>>)) :
          alert_monitoring_cycle([t \in Tokens |-> q], [t \in Tokens |-> Some(MockLiquidity)],
                                 [t \in Tokens |-> f], [t \in Tokens |-> FALSE])
          /\ UNCHANGED shell_vars

SpecPrice == Init /\ [][NextPrice]_vars

\* Registering again after unregistering: one subscriber, one token, no price lookup
\* that raises; every registration is given the price of the market at its time,
\* whether the code asks the feed or not.  A registration can also fail on its
\* watchlist or on get_token_info.
Registrants == {"u1"}
NextReregister ==
    \/ \E u \in Registrants : create_user(u)
          /\ UNCHANGED shell_vars
    \/ \E u \in Registrants, h \in Thresholds, l \in Thresholds, q \in Quotes \ {Fail} :
          add_price_alert(u, PriceToken, h, l, "no_name", TRUE, q, Some(MockLiquidity))
          /\ UNCHANGED shell_vars
    \/ \E u \in Registrants, wl \in {"no_name", "not_found"} :
          add_price_alert(u, PriceToken, None, None, wl, wl = "not_found", Fail, Fail)
          /\ UNCHANGED shell_vars
    \/ \E u \in Registrants : remove_price_alert(u, PriceToken)
          /\ UNCHANGED shell_vars
    \/ \E q \in Quotes \ {Fail} :
          alert_monitoring_cycle([t \in Tokens |-> q], [t \in Tokens |-> Some(MockLiquidity)],
                                 [t \in Tokens |-> 0], [t \in Tokens |-> FALSE])
          /\ UNCHANGED shell_vars

SpecReregister == Init /\ [][NextReregister]_vars

\* tokens.py:58  the price the mock feed returns (0.001 ETH, in units of 0.0005 ETH)
MockPrice == 2

\* 10 -> 12 and 10 -> 8 are changes of exactly 20%, 8 -> 10 is one of 25%
LiquidityLevels == {0, 8, 10, 12}
LiquidityQuotes == {Fail} \cup {Some(l) : l \in LiquidityLevels}

\* The liquidity of one token moves while the other token's stays at the mock value:
\* alerts without thresholds, a constant price
LiquidityToken == "T1"
NextLiquidity ==
    \/ \E u \in TelegramIds : create_user(u)
          /\ UNCHANGED shell_vars
    \/ \E u \in TelegramIds, t \in Tokens, l \in LiquidityQuotes :
          add_price_alert(u, t, None, None, "no_name", TRUE, Some(MockPrice),
                          IF t = LiquidityToken THEN l ELSE Some(MockLiquidity))
          /\ UNCHANGED shell_vars
    \/ \E u \in TelegramIds, t \in Tokens : remove_price_alert(u, t)
          /\ UNCHANGED shell_vars
    \/ \E l \in LiquidityQuotes, f \in BOOLEAN :
          alert_monitoring_cycle([t \in Tokens |-> Some(MockPrice)],
              [t \in Tokens |-> IF t = LiquidityToken THEN l ELSE Some(MockLiquidity)],
              [t \in Tokens |-> 0], [t \in Tokens |-> f])
          /\ UNCHANGED shell_vars

SpecLiquidity == Init /\ [][NextLiquidity]_vars

\* Copy trading: the handlers of src/bot/copytrade_handlers.py (setup at line 182,
\* pause at 297, resume at 314, sandbox toggle at 339) and process_transaction.
\* One subscriber, who sets a wallet once; the pause and resume buttons are pressed
\* in any state of the configuration, the sandbox button toggles the flag
\* (copytrade_handlers.py:335); the lookup that raises is one of those the loop of
\* process_transaction makes.
Copiers == {"u1"}
NextCopy ==
    \/ \E u \in Copiers : create_user(u)
          /\ UNCHANGED shell_vars
    \/ \E u \in {x \in Copiers \cap DOMAIN users : users[x].wallet_address = None} :
          update_user_wallet(u)
          /\ UNCHANGED shell_vars
    \/ \E u \in Copiers, w \in TargetWallets \cup {InvalidWallet}, sb \in BOOLEAN :
          setup_copy_trading(u, w, DefaultSlippage, DefaultMaxEth, sb)
          /\ UNCHANGED shell_vars
    \/ \E u \in Copiers, c \in 1..MinOf(Len(configs) + 1, MaxConfigs), active \in BOOLEAN :
          update_copy_trading(u, c, Some(active), None, None, None)
          /\ UNCHANGED shell_vars
    \/ \E u \in Copiers, c \in 1..Len(configs) :
          update_copy_trading(u, c, None, None, Some(~configs[c].sandbox_mode), None)
          /\ UNCHANGED shell_vars
    \/ \E tx \in Transactions :
          \E fail_at \in 0..Len(Get(monitored_wallets, tx.from, <<>>)) :
              process_transaction(tx, fail_at)
          /\ UNCHANGED shell_vars

SpecCopy == Init /\ [][NextCopy]_vars

\* Two tokens polled together, one of them failing: the price of each moves, the
\* liquidity of both moves together, and in a poll the price lookup, the liquidity lookup, or the
\* get_token_info lookup of one of the two checks can raise for one token
IsolationPrices == {0, 2}
IsolationLiquidities == {5, 10}
Faults == {"none", "price", "price_info", "liquidity", "liquidity_info"}
NextIsolation ==
    \/ \E u \in Registrants : create_user(u)
          /\ UNCHANGED shell_vars
    \/ \E u \in Registrants, t \in Tokens :
          \E p \in IF t \in DOMAIN token_data THEN {MockPrice} ELSE IsolationPrices :
              add_price_alert(u, t, Some(1), Some(1), "no_name", TRUE, Some(p),
                              Some(MockLiquidity))
          /\ UNCHANGED shell_vars
    \/ \E failing \in Tokens, fault \in Faults :
          \E p \in [Tokens -> IsolationPrices], l \in IsolationLiquidities :
              alert_monitoring_cycle(
                  [t \in Tokens |-> IF t = failing /\ fault = "price" THEN Fail ELSE Some(p[t])],
                  [t \in Tokens |-> IF t = failing /\ fault = "liquidity" THEN Fail
                                    ELSE Some(l)],
                  [t \in Tokens |-> IF t = failing /\ fault = "price_info" THEN 1 ELSE 0],
                  [t \in Tokens |-> t = failing /\ fault = "liquidity_info"])
          /\ UNCHANGED shell_vars

SpecIsolation == Init /\ [][NextIsolation]_vars

\* The registrations of two subscribers who may not have a user record, or a wallet:
\* the calls that the conversations make once their inputs are accepted
NextRegistration ==
    \/ \E u \in TelegramIds : create_user(u)
          /\ UNCHANGED shell_vars
    \/ \E u \in TelegramIds : update_user_wallet(u)
          /\ UNCHANGED shell_vars
    \/ \E u \in TelegramIds, h \in Thresholds \ {None} :
          add_price_alert(u, PriceToken, h, None, "no_name", TRUE, Some(MockPrice),
                          Some(MockLiquidity))
          /\ UNCHANGED shell_vars
    \/ \E u \in TelegramIds : remove_price_alert(u, PriceToken)
          /\ UNCHANGED shell_vars
    \/ \E u \in TelegramIds, w \in WalletTexts :
          setup_copy_trading(u, w, DefaultSlippage, DefaultMaxEth, TRUE)
          /\ UNCHANGED shell_vars

SpecRegistration == Init /\ [][NextRegistration]_vars

\* The conversation that registers a price alert, with everything a user can type as
\* a threshold; the feeds answer with the mock values.  An alert is also removed with
\* its button (alert_handlers.py:317).
NextAlertForm ==
    \/ \E u \in Registrants : create_user(u)
          /\ UNCHANGED shell_vars
    \/ \E u \in Registrants : add_alert_command(u, PriceToken)
    \/ \E u \in Registrants, text \in PriceTexts : price_high_input(u, text)
    \/ \E u \in Registrants, text \in PriceTexts : price_low_input(u, text)
    \/ \E u \in Registrants :
          confirm_alert(u, "no_name", TRUE, Some(MockPrice), Some(MockLiquidity))
    \/ \E u \in Registrants : cancel_alert(u)
    \/ \E u \in Registrants : remove_price_alert(u, PriceToken)
          /\ UNCHANGED shell_vars

SpecAlertForm == Init /\ [][NextAlertForm]_vars

\* The conversation that sets up copy trading, with everything a user can type as a
\* wallet address, a slippage and an amount; the sandbox mode, enabled in the
\* conversation, is toggled with the button of a configuration (the only update of a
\* configuration's limits or mode that a handler makes)
NextMirrorForm ==
    \/ \E u \in Copiers : create_user(u)
          /\ UNCHANGED shell_vars
    \/ \E u \in {x \in Copiers \cap DOMAIN users : users[x].wallet_address = None} :
          update_user_wallet(u)
          /\ UNCHANGED shell_vars
    \/ \E u \in Copiers, text \in WalletTexts : mirror_command(u, text)
    \/ \E u \in Copiers, text \in WalletTexts : target_wallet_input(u, text)
    \/ \E u \in Copiers, text \in SlippageTexts : slippage_guard_input(u, text)
    \/ \E u \in Copiers, text \in EthTexts : max_eth_input(u, text)
    \/ \E u \in Copiers : sandbox_mode_button(u, TRUE)
    \/ \E u \in Copiers, yes \in BOOLEAN : confirm_setup_button(u, yes)
    \/ \E u \in Copiers : cancel_mirror(u)
    \/ \E u \in Copiers, c \in 1..Len(configs) :
          update_copy_trading(u, c, None, None, Some(~configs[c].sandbox_mode), None)
          /\ UNCHANGED shell_vars

SpecMirrorForm == Init /\ [][NextMirrorForm]_vars

\* The loop of start_monitoring over a growing chain: one subscriber sets up copy
\* trading, blocks carry the transactions of the watched wallets, the read of the
\* chain head can raise
NextMonitor ==
    \/ \E u \in Copiers : create_user(u)
          /\ UNCHANGED shell_vars
    \/ \E u \in {x \in Copiers \cap DOMAIN users : users[x].wallet_address = None} :
          update_user_wallet(u)
          /\ UNCHANGED shell_vars
    \/ \E u \in Copiers, w \in TargetWallets, sb \in BOOLEAN :
          setup_copy_trading(u, w, DefaultSlippage, DefaultMaxEth, sb)
          /\ UNCHANGED shell_vars
    \/ \E txs \in SUBSET Transactions : mine(txs)
    \/ \E i \in 1..Len(tasks), head_ok \in BOOLEAN : start_monitoring_iteration(i, head_ok)
    \/ \E i \in 1..Len(tasks) : wake(i)

SpecMonitor == Init /\ [][NextMonitor]_vars

\* The two loops side by side, with lookups that raise: the read of the chain head,
\* the price lookup of a poll (caught inside check_price_alerts), and an exception
\* that leaves the cycle of start_alert_monitoring
NextLoops ==
    \/ \E u \in Registrants : create_user(u)
          /\ UNCHANGED shell_vars
    \/ \E u \in Registrants, h \in Thresholds \ {None} :
          add_price_alert(u, PriceToken, h, None, "no_name", TRUE, Some(MockPrice),
                          Some(MockLiquidity))
          /\ UNCHANGED shell_vars
    \/ \E i \in 1..Len(tasks), head_ok \in BOOLEAN : start_monitoring_iteration(i, head_ok)
    \/ \E i \in 1..Len(tasks), q \in Quotes, raised \in BOOLEAN :
          start_alert_monitoring_iteration(i, [t \in Tokens |-> q],
              [t \in Tokens |-> Some(MockLiquidity)], [t \in Tokens |-> 0],
              [t \in Tokens |-> FALSE], raised)
    \/ \E i \in 1..Len(tasks) : wake(i)

\* the event loop runs every task that is ready and fires every timer that is due
LoopsFairness ==
    \A i \in 1..Len(main) :
        /\ WF_vars(wake(i))
        /\ WF_vars(\E head_ok \in BOOLEAN : start_monitoring_iteration(i, head_ok))
        /\ WF_vars(\E q \in Quotes, raised \in BOOLEAN :
                      start_alert_monitoring_iteration(i, [t \in Tokens |-> q],
                          [t \in Tokens |-> Some(MockLiquidity)], [t \in Tokens |-> 0],
                          [t \in Tokens |-> FALSE], raised))

SpecLoops == Init /\ [][NextLoops]_vars /\ LoopsFairness

\* Two subscribers, each with a wallet, who set up copy trading and press the pause,
\* resume and sandbox buttons with the number of any configuration, their own or not
NextOwnership ==
    \/ \E u \in TelegramIds : create_user(u)
          /\ UNCHANGED shell_vars
    \/ \E u \in {x \in DOMAIN users : users[x].wallet_address = None} :
          update_user_wallet(u)
          /\ UNCHANGED shell_vars
    \/ \E u \in TelegramIds, w \in TargetWallets :
          setup_copy_trading(u, w, DefaultSlippage, DefaultMaxEth, TRUE)
          /\ UNCHANGED shell_vars
    \/ \E u \in TelegramIds, c \in 1..Len(configs), active \in BOOLEAN :
          update_copy_trading(u, c, Some(active), None, None, None)
          /\ UNCHANGED shell_vars
    \/ \E u \in TelegramIds, c \in 1..Len(configs) :
          update_copy_trading(u, c, None, None, Some(~configs[c].sandbox_mode), None)
          /\ UNCHANGED shell_vars

SpecOwnership == Init /\ [][NextOwnership]_vars

\* One subscription whose two thresholds take every order (high below low, equal,
\* high above low), are missing or are NaN, polled at every price; the
\* get_token_info call of a poll can raise
AnyThresholds == {None, Some(NaN)} \cup {Some(v) : v \in 1..(MaxThreshold + 1)}
NextThresholds ==
    \/ \E u \in Registrants : create_user(u)
          /\ UNCHANGED shell_vars
    \/ \E u \in Registrants, h \in AnyThresholds, l \in AnyThresholds :
          \E q \in IF PriceToken \in DOMAIN token_data THEN {Fail} ELSE Quotes \ {Fail} :
              add_price_alert(u, PriceToken, h, l, "no_name", TRUE, q, Some(MockLiquidity))
          /\ UNCHANGED shell_vars
    \/ \E q \in Quotes, f \in 0..Len(Get(price_alerts, PriceToken, <<>>)) :
          alert_monitoring_cycle([t \in Tokens |-> q], [t \in Tokens |-> Some(MockLiquidity)],
                                 [t \in Tokens |-> f], [t \in Tokens |-> FALSE])
          /\ UNCHANGED shell_vars

SpecThresholds == Init /\ [][NextThresholds]_vars

\* The polls of two tokens whose prices and liquidities move, with the notifications
\* of their events, one of which can raise
MaxNotifications == 4
NextNotify ==
    \/ \E u \in Registrants : create_user(u)
          /\ UNCHANGED shell_vars
    \/ \E u \in Registrants, t \in Tokens :
          \E p \in IF t \in DOMAIN token_data THEN {MockPrice} ELSE IsolationPrices :
              add_price_alert(u, t, Some(1), Some(1), "no_name", TRUE, Some(p),
                              Some(MockLiquidity))
          /\ UNCHANGED shell_vars
    \/ \E i \in 1..Len(tasks), p \in [Tokens -> IsolationPrices], l \in IsolationLiquidities,
          f \in 0..MaxNotifications :
          start_alert_monitoring_notifying(i, [t \in Tokens |-> Some(p[t])],
              [t \in Tokens |-> Some(l)], [t \in Tokens |-> 0], [t \in Tokens |-> FALSE], f)
    \/ \E i \in 1..Len(tasks) : wake(i)

SpecNotify == Init /\ [][NextNotify]_vars

\* The handlers and the two loops on the event loop, statement by statement where a
\* coroutine writes or reads the subscriptions in several statements: the update of
\* an existing alert and the iteration of check_price_alerts.  A handler whose call
\* is one step here starts when the event loop is idle and ends before it gives the
\* event loop back.
\* The feeds answer with the mock values, or the price feed raises; an alert is
\* registered with a low threshold and updated to a high threshold or back.
PollQuotes == {Fail, Some(MockPrice)}
AlertForms == {<<None, Some(1)>>, <<Some(1), None>>}
NextEventLoop ==
    \/ \E u \in Registrants : running = 0 /\ create_user(u)
          /\ UNCHANGED shell_vars
    \/ \E u \in {x \in Copiers \cap DOMAIN users : users[x].wallet_address = None} :
          running = 0 /\ update_user_wallet(u)
          /\ UNCHANGED shell_vars
    \/ \E u \in Registrants, t \in Tokens :
          /\ running = 0
          /\ AlertIndex(Get(price_alerts, t, <<>>), u) = 0
          /\ add_price_alert(u, t, None, Some(1), "no_name", TRUE, Some(MockPrice),
                             Some(MockLiquidity))
          /\ UNCHANGED shell_vars
    \/ \E u \in Registrants, t \in Tokens, form \in AlertForms :
          add_price_alert_begin(u, t, form[1], form[2])
    \/ \E h \in DOMAIN tasks : add_price_alert_price_high(h)
    \/ \E h \in DOMAIN tasks : add_price_alert_price_low(h)
    \/ \E u \in Registrants, t \in Tokens : running = 0 /\ remove_price_alert(u, t)
          /\ UNCHANGED shell_vars
    \/ \E u \in Copiers, w \in TargetWallets :
          running = 0 /\ setup_copy_trading(u, w, DefaultSlippage, DefaultMaxEth, TRUE)
          /\ UNCHANGED shell_vars
    \/ \E u \in Copiers, c \in 1..Len(configs) :
          running = 0 /\ update_copy_trading(u, c, Some(~configs[c].active), None, None, None)
          /\ UNCHANGED shell_vars
    \/ \E i \in 1..Len(main) : check_price_alerts_begin(i)
    \/ \E i \in 1..Len(main), q \in PollQuotes : check_price_alerts_token(i, q, 0)
    \/ \E i \in 1..Len(main) :
          check_liquidity_changes_and_sleep(i, [t \in Tokens |-> Some(MockLiquidity)],
                                            [t \in Tokens |-> FALSE])
    \/ \E i \in 1..Len(main) : CanRun(i) /\ start_monitoring_iteration(i, TRUE)
    \/ \E i \in 1..Len(main) : wake(i)

SpecEventLoop == Init /\ [][NextEventLoop]_vars

\* The whole program: every operation, with the inputs of the specifications above
Next ==
    \/ NextPrice \/ NextReregister \/ NextLiquidity \/ NextCopy
    \/ NextIsolation \/ NextRegistration \/ NextAlertForm \/ NextMirrorForm \/ NextMonitor
    \/ NextLoops \/ NextEventLoop \/ NextNotify \/ NextThresholds \/ NextOwnership

Spec == Init /\ [][Next]_vars

----------------------------------------------------------------------------
(* Properties of the price alerts *)

\* the price recorded for the token, None when no price is recorded
StoredPrice(data, token_address) ==
    IF token_address \in DOMAIN data /\ "price_eth" \in DOMAIN data[token_address]
    THEN Some(data[token_address]["price_eth"]) ELSE None

\* the positions of the events of one type for one subscription
EventsFor(events, type, telegram_id, token_address) ==
    {k \in 1..Len(events) : /\ events[k]["type"] = type
                            /\ events[k]["telegram_id"] = telegram_id
                            /\ events[k]["token_address"] = token_address}

\* C1: in every poll, a subscription with high threshold T gets exactly one price_high
\* event if the price recorded before the poll is below T and the price fetched by
\* the poll is at or above T, and no price_high event otherwise.
C1_HighEdgeTriggered ==
    [][last'.op = "alert_monitoring_cycle" =>
        \A t \in DOMAIN price_alerts : \A i \in 1..Len(price_alerts[t]) :
            LET a == price_alerts[t][i]
                previous == StoredPrice(token_data, t)
                fetched == last'.quote[t]
                crossing == /\ previous # None /\ fetched # Fail
                            /\ previous[1] < a.price_high[1]
                            /\ fetched[1] >= a.price_high[1]
            IN a.price_high # None =>
                 Cardinality(EventsFor(triggered_alerts', "price_high", a.telegram_id, t))
                     = IF crossing THEN 1 ELSE 0]_vars

\* C2: in every poll, a subscription with low threshold L gets exactly one price_low
\* event if the price recorded before the poll is above L and the price fetched by
\* the poll is at or below L, and no price_low event otherwise.
C2_LowEdgeTriggered ==
    [][last'.op = "alert_monitoring_cycle" =>
        \A t \in DOMAIN price_alerts : \A i \in 1..Len(price_alerts[t]) :
            LET a == price_alerts[t][i]
                previous == StoredPrice(token_data, t)
                fetched == last'.quote[t]
                crossing == /\ previous # None /\ fetched # Fail
                            /\ previous[1] > a.price_low[1]
                            /\ fetched[1] <= a.price_low[1]
            IN a.price_low # None =>
                 Cardinality(EventsFor(triggered_alerts', "price_low", a.telegram_id, t))
                     = IF crossing THEN 1 ELSE 0]_vars

\* C3: every token's list of alerts holds at most one entry per subscriber, and the
\* events of a poll hold at most one event of each type per subscriber and token.
C3_OneEntryPerSubscriber ==
    /\ \A t \in DOMAIN price_alerts : \A i, j \in 1..Len(price_alerts[t]) :
          price_alerts[t][i].telegram_id = price_alerts[t][j].telegram_id => i = j
    /\ \A e \in {triggered_alerts[k] : k \in 1..Len(triggered_alerts)} :
          Cardinality(EventsFor(triggered_alerts, e.type, e.telegram_id, e.token_address)) = 1

\* a subscriber re-registered while the other subscriber's alert is in the same list
C3_Witness ==
    /\ last.op = "add_price_alert" /\ last.result = "updated"
    /\ PriceToken \in DOMAIN price_alerts
    /\ Len(price_alerts[PriceToken]) = Cardinality(TelegramIds)

\* C4: no token has a record in token_data without having an entry in price_alerts.
C4_RecordOnlyWhileSubscribed == DOMAIN token_data \subseteq DOMAIN price_alerts

\* C5: when a registration creates the first subscription of a token and the price
\* feed answers it, the price recorded for the token after the registration is the
\* price of that answer.
C5_FreshBaseline ==
    [][(last'.op = "add_price_alert" /\ last'.result = "added" /\ last'.quote # Fail) =>
        \A t \in DOMAIN price_alerts' \ DOMAIN price_alerts :
            StoredPrice(token_data', t) = last'.quote]_vars

----------------------------------------------------------------------------
(* Properties of the liquidity check *)

\* the ETH liquidity recorded for the token, None when none is recorded
StoredLiquidity(data, token_address) ==
    IF token_address \in DOMAIN data /\ "eth_liquidity" \in DOMAIN data[token_address]
    THEN Some(data[token_address]["eth_liquidity"]) ELSE None

\* |current - previous| is at least 20% of previous (> 0), in exact arithmetic
AtLeastTwentyPercent(previous, current) ==
    5 * (IF current >= previous THEN current - previous ELSE previous - current) >= previous

\* C6: in a poll in which no lookup raises, for a token whose recorded ETH liquidity
\* is positive: if the liquidity the poll fetches and records differs from it by 20%
\* or more, every subscriber of the token gets exactly one liquidity_change event and
\* nobody else gets one; if it differs by less, nobody gets one.
C6_LiquidityChange ==
    [][(last'.op = "alert_monitoring_cycle" /\ last'.errors = {}) =>
        \A t \in DOMAIN token_data :
            LET previous == StoredLiquidity(token_data, t)
                fetched == StoredLiquidity(token_data', t)
            IN (previous # None /\ previous[1] > 0) =>
                 \A u \in TelegramIds :
                    Cardinality(EventsFor(liquidity_alerts', "liquidity_change", u, t))
                        = IF AtLeastTwentyPercent(previous[1], fetched[1])
                             /\ u \in AlertUsers(price_alerts, t)
                          THEN 1 ELSE 0]_vars

----------------------------------------------------------------------------
(* Properties of copy trading *)

\* the steps of a list of mirror steps, as a set
StepsOf(mirrored) == {mirrored[k] : k \in 1..Len(mirrored)}

\* the configurations of the registry other than config_id, wallet by wallet
OtherConfigs(wallets, config_id) ==
    [w \in TargetWallets |->
        SelectSeq(Get(wallets, w, <<>>), LAMBDA c : c["config_id"] # config_id)]

\* C7: no (configuration, transaction) pair has had more than one mirror step, and a
\* call with a hash that is already processed performs no mirror step.
C7_MirrorAtMostOnce ==
    /\ \A k \in DOMAIN copy_trades : copy_trades[k] <= 1
    /\ (last.op = "process_transaction" /\ last.result = "already processed")
          => last.mirrored = <<>>

\* a transaction that was mirrored is handed to process_transaction again
C7_Witness ==
    /\ last.op = "process_transaction" /\ last.result = "already processed"
    /\ \E c \in 1..Len(configs) :
          /\ <<c, last.transaction.hash>> \in DOMAIN copy_trades
          /\ copy_trades[<<c, last.transaction.hash>>] = 1

\* C8: no call of process_transaction performs a mirror step for a configuration that
\* is paused (its row has active = FALSE), and a call update_copy_trading(c,
\* active=False) leaves every other configuration of the registry in its list, at
\* its position among the others, with its limits and sandbox flag unchanged.
C8_PauseStopsOnlyThatConfig ==
    [][/\ last'.op = "process_transaction" =>
            \A m \in StepsOf(last'.mirrored) : configs[m.config_id].active
       /\ (last'.op = "update_copy_trading" /\ last'.args.active = Some(FALSE)) =>
            OtherConfigs(monitored_wallets', last'.args.config_id)
                = OtherConfigs(monitored_wallets, last'.args.config_id)]_vars

\* a transaction from a wallet with a paused configuration is mirrored for another
\* configuration of the same wallet
C8_Witness ==
    /\ last.op = "process_transaction" /\ last.mirrored # <<>>
    /\ \E c \in 1..Len(configs) :
          /\ ~configs[c].active
          /\ configs[c].target_wallet = last.transaction.from
          /\ \A m \in StepsOf(last.mirrored) : m.config_id # c

\* C9: a call of process_transaction with a hash not yet processed, in which no lookup
\* raises, performs a mirror step for every configuration of the sender whose row is
\* active, a configuration that was paused and resumed included.
C9_ResumeMirrorsAgain ==
    [][(/\ last'.op = "process_transaction" /\ last'.result = "ok"
        /\ last'.transaction.hash \notin processed_transactions) =>
          \A c \in 1..Len(configs) :
             (configs[c].active /\ configs[c].target_wallet = last'.transaction.from) =>
                 \E m \in StepsOf(last'.mirrored) : m.config_id = c]_vars

----------------------------------------------------------------------------
(* Properties of a poll in which a lookup raises *)

\* the events of the poll for the alert a of token t are those of the move of the
\* price from previous to fetched
PriceEventsAsExpected(events, t, a, previous, fetched) ==
    /\ Cardinality(EventsFor(events, "price_high", a.telegram_id, t))
          = IF a.price_high # None /\ previous < a.price_high[1]
               /\ fetched >= a.price_high[1] THEN 1 ELSE 0
    /\ Cardinality(EventsFor(events, "price_low", a.telegram_id, t))
          = IF a.price_low # None /\ previous > a.price_low[1]
               /\ fetched <= a.price_low[1] THEN 1 ELSE 0

\* C16: in every poll, every token of price_alerts whose price check did not end in
\* an exception has the fetched price recorded and exactly the events of its
\* crossings, and every token of token_data whose liquidity check did not end in an
\* exception has a liquidity recorded and exactly the events of its change, whatever
\* happened to the other tokens; and the poll leaves price_alerts as it was and every
\* record in token_data, so that the next poll asks for the failing tokens again.
C16_FailuresIsolatedPerToken ==
    [][last'.op = "alert_monitoring_cycle" =>
        /\ price_alerts' = price_alerts
        /\ DOMAIN token_data \subseteq DOMAIN token_data'
        /\ \A t \in DOMAIN price_alerts : <<"price", t>> \notin last'.errors =>
              /\ last'.quote[t] # Fail
              /\ StoredPrice(token_data', t) = last'.quote[t]
              /\ \A i \in 1..Len(price_alerts[t]) :
                    PriceEventsAsExpected(triggered_alerts', t, price_alerts[t][i],
                        IF StoredPrice(token_data, t) = None THEN last'.quote[t][1]
                        ELSE StoredPrice(token_data, t)[1],
                        last'.quote[t][1])
        /\ \A t \in DOMAIN token_data : <<"liquidity", t>> \notin last'.errors =>
              LET previous == StoredLiquidity(token_data, t)
                  fetched == StoredLiquidity(token_data', t)
              IN /\ fetched # None
                 /\ \A u \in TelegramIds :
                       Cardinality(EventsFor(liquidity_alerts', "liquidity_change", u, t))
                           = IF previous # None /\ previous[1] > 0
                                /\ AtLeastTwentyPercent(previous[1], fetched[1])
                                /\ u \in AlertUsers(price_alerts, t)
                             THEN 1 ELSE 0]_vars

\* the price check of one token ended in an exception in a poll that emitted a price
\* event and a liquidity event for the other token
C16_Witness ==
    /\ last.op = "alert_monitoring_cycle"
    /\ \E failed \in Tokens :
          /\ <<"price", failed>> \in last.errors
          /\ \E k \in 1..Len(triggered_alerts) : triggered_alerts[k].token_address # failed
          /\ \E k \in 1..Len(liquidity_alerts) : liquidity_alerts[k].token_address # failed

\* the fields of the token's record that the price check writes
PriceFields(data, t) ==
    IF t \in DOMAIN data
    THEN [k \in DOMAIN data[t] \cap {"price_eth", "price_usd"} |-> data[t][k]]
    ELSE EmptyDict

\* the fields of the token's record that the liquidity check writes
LiquidityFields(data, t) ==
    IF t \in DOMAIN data
    THEN [k \in DOMAIN data[t] \cap {"eth_liquidity", "token_liquidity"} |-> data[t][k]]
    ELSE EmptyDict

\* C17: in every poll, a token whose price check ended in an exception has the price
\* fields of its record as before the poll, and a token whose liquidity check ended
\* in an exception has the liquidity fields of its record as before the poll.
C17_FailedPollLeavesRecord ==
    [][last'.op = "alert_monitoring_cycle" =>
        \A t \in Tokens :
            /\ <<"price", t>> \in last'.errors =>
                  PriceFields(token_data', t) = PriceFields(token_data, t)
            /\ <<"liquidity", t>> \in last'.errors =>
                  LiquidityFields(token_data', t) = LiquidityFields(token_data, t)]_vars

----------------------------------------------------------------------------
(* Properties of the registrations *)

\* the alert conversation of the user ends in a call of add_price_alert
AlertConfirmed(u) ==
    /\ last'.op = "add_price_alert"
    /\ conversations[u].alert = "WATCHLIST_NAME" /\ conversations'[u].alert = "END"

\* C12: a call of add_price_alert with both thresholds absent, or with one that is
\* <= 0, returns an error and leaves price_alerts and token_data unchanged; and every
\* alert stored in price_alerts has a threshold set, every threshold set being > 0.
C12_InvalidThresholdsRejected ==
    [][/\ \A u \in TelegramIds : AlertConfirmed(u) =>
             LET price_high == conversations[u].user_data["alert_price_high"]
                 price_low == conversations[u].user_data["alert_price_low"]
             IN (\/ price_high = None /\ price_low = None
                 \/ price_high # None /\ FloatLe(price_high[1], 0)
                 \/ price_low # None /\ FloatLe(price_low[1], 0)) =>
                    /\ last'.result \notin {"added", "updated"}
                    /\ UNCHANGED <<price_alerts, token_data>>
       /\ \A t \in DOMAIN price_alerts' : \A i \in 1..Len(price_alerts'[t]) :
             LET a == price_alerts'[t][i]
             IN /\ a.price_high # None \/ a.price_low # None
                /\ a.price_high # None => FloatLt(0, a.price_high[1])
                /\ a.price_low # None => FloatLt(0, a.price_low[1])]_vars

\* the subscriber has no alert for the token
NoSubscription(telegram_id, token_address) ==
    \/ token_address \notin DOMAIN price_alerts
    \/ \A i \in 1..Len(price_alerts[token_address]) :
          price_alerts[token_address][i].telegram_id # telegram_id

\* C14: a call remove_price_alert(u, t) when u has no alert for t, whether t has no
\* alerts at all or only alerts of other subscribers, returns the result "Alert not
\* found" (it does not raise) and leaves price_alerts and token_data unchanged.
C14_RemoveAbsentIsNoop ==
    [][\A u \in TelegramIds, t \in Tokens :
          (remove_price_alert(u, t) /\ NoSubscription(u, t)) =>
              /\ last'.result = "Alert not found"
              /\ UNCHANGED <<price_alerts, token_data>>]_vars

\* a subscriber without an alert for the token asked to remove it while the token
\* has the alert of another subscriber
C14_Witness ==
    /\ last.op = "remove_price_alert" /\ last.result = "Alert not found"
    /\ PriceToken \in DOMAIN price_alerts
    /\ PriceToken \in DOMAIN token_data

\* C15: a call of add_price_alert for a telegram_id that has no user record returns
\* the error "User not found", a call of setup_copy_trading for a telegram_id that has
\* no user record or no wallet returns an error, and both leave price_alerts,
\* token_data, monitored_wallets and the configurations unchanged.
C15_UnknownSubscriberRejected ==
    [][\A u \in TelegramIds :
          /\ \A h \in Thresholds :
                (/\ add_price_alert(u, PriceToken, h, None, "no_name", TRUE,
                                    Some(MockPrice), Some(MockLiquidity))
                 /\ u \notin DOMAIN users) =>
                    /\ last'.result = "User not found"
                    /\ UNCHANGED <<price_alerts, token_data, monitored_wallets, configs>>
          /\ \A w \in WalletTexts :
                (/\ setup_copy_trading(u, w, DefaultSlippage, DefaultMaxEth, TRUE)
                 /\ (u \notin DOMAIN users \/ users[u].wallet_address = None)) =>
                    /\ last'.result \in {"No wallet found", "Invalid wallet address"}
                    /\ UNCHANGED <<price_alerts, token_data, monitored_wallets, configs>>
      ]_vars

\* a registration for an unknown telegram_id was rejected while the stores hold the
\* alert and the configuration of the other subscriber
C15_Witness ==
    /\ last.op = "add_price_alert" /\ last.result = "User not found"
    /\ price_alerts # EmptyDict /\ monitored_wallets # EmptyDict
    /\ DOMAIN users # TelegramIds

\* the mirror conversation of the user ends in a call of setup_copy_trading
MirrorConfirmed(u) ==
    /\ last'.op = "setup_copy_trading"
    /\ conversations[u].mirror = "CONFIRM_SETUP" /\ conversations'[u].mirror = "END"

\* 0.1 <= slippage_guard <= 50 (in percent) and max_eth_per_trade > 0
ValidLimits(c) ==
    /\ c["slippage_guard"] # NaN /\ 10 * c["slippage_guard"] >= 1
    /\ FloatLe(c["slippage_guard"], 50)
    /\ FloatLt(0, c["max_eth_per_trade"])

\* C13: a call of setup_copy_trading with a target wallet that is not an address, a
\* slippage_guard outside [0.1, 50] or a max_eth_per_trade <= 0 does not succeed and
\* leaves the configurations and monitored_wallets unchanged; and every row of the
\* configurations and every entry of monitored_wallets has its slippage_guard within
\* [0.1, 50] and its max_eth_per_trade > 0, after every call.
C13_InvalidSetupRejected ==
    [][/\ \A u \in TelegramIds : MirrorConfirmed(u) =>
             LET data == conversations[u].user_data
             IN (\/ ~is_address(data["mirror_target_wallet"])
                 \/ SlippageRejected(data["mirror_slippage_guard"])
                 \/ FloatLe(data["mirror_max_eth"], 0)) =>
                    /\ last'.result # "success"
                    /\ UNCHANGED <<configs, monitored_wallets>>
       /\ \A c \in 1..Len(configs') : ValidLimits(configs'[c])
       /\ \A w \in DOMAIN monitored_wallets' : \A k \in 1..Len(monitored_wallets'[w]) :
             ValidLimits(monitored_wallets'[w][k])]_vars

----------------------------------------------------------------------------
(* Properties of the monitoring loops *)

\* the sleep of a loop after a cycle that ended normally, and after one that raised
SleepOf(coro) == IF coro = "start_monitoring" THEN CopySleep ELSE AlertSleep
ErrorSleepOf(coro) == IF coro = "start_monitoring" THEN CopyErrorSleep ELSE AlertErrorSleep

\* the step is a cycle of task i
CycleOf(i) == tasks[i].pc = "try" /\ tasks'[i] # tasks[i]

\* C18: every cycle of either loop ends in the loop's sleep, with the delay 120 s
\* resp. 10 s when the cycle raised and 60 s resp. 5 s when it did not; no task ever
\* leaves its loop; and each loop starts cycles again and again.
C18_LoopsSurviveExceptions ==
    /\ [][\A i \in 1..Len(tasks) : CycleOf(i) =>
            /\ tasks'[i].pc = "sleep"
            /\ tasks'[i].delay = IF last'.result = "ok" THEN SleepOf(tasks[i].coro)
                                 ELSE ErrorSleepOf(tasks[i].coro)]_vars
    /\ [](\A i \in 1..Len(tasks) : tasks[i].pc \in {"try", "sleep"})
    /\ \A i \in 1..Len(main) : []<><<CycleOf(i)>>_vars

\* both loops are in the sleep that follows an exception
C18_Witness ==
    /\ tasks[1].pc = "sleep" /\ tasks[1].delay = CopyErrorSleep
    /\ tasks[2].pc = "sleep" /\ tasks[2].delay = AlertErrorSleep

\* C11: an iteration of start_monitoring that reads a chain head above the head its
\* previous iteration read (above 0 for the first) leaves every transaction of the
\* blocks in between whose sender is a watched wallet processed, with a mirror step
\* for every configuration of the sender's list.
C11_WatchedTransactionsMirrored ==
    [][(last'.op = "start_monitoring" /\ last'.result = "ok") =>
        LET seen == tasks[last'.task].latest_block
            lastSeenHeight == IF seen = None THEN 0 ELSE seen[1]
        IN \A b \in (lastSeenHeight + 1)..Len(chain) : \A tx \in chain[b] :
              tx.from \in DOMAIN monitored_wallets =>
                 /\ tx.hash \in processed_transactions'
                 /\ \A k \in 1..Len(monitored_wallets[tx.from]) :
                       <<monitored_wallets[tx.from][k]["config_id"], tx.hash>>
                           \in DOMAIN copy_trades']_vars

----------------------------------------------------------------------------
(* Properties of the coroutines on the event loop *)

\* the task is inside a cycle of its loop
InCycle(i) == tasks[i].pc \notin {"try", "sleep"}

\* C19: a task goes back to the head of its loop only from its sleep, and it enters
\* its sleep only from the end of a cycle (or, for the loop whose cycle is one
\* statement, from the head); and no two tasks of the same loop are inside a cycle
\* at the same time.
C19_SingleFlightPolling ==
    /\ [][\A i \in 1..Len(main) :
            /\ (tasks'[i].pc = "try" /\ tasks[i].pc # "try") => tasks[i].pc = "sleep"
            /\ (tasks'[i].pc = "sleep" /\ tasks[i].pc # "sleep") =>
                  \/ tasks[i].pc = "check_price_alerts" /\ tasks[i].keys = <<>>
                  \/ tasks[i].pc = "try" /\ tasks[i].coro = "start_monitoring"]_vars
    /\ [](\A i \in 1..Len(main), j \in 1..Len(main) :
            (tasks[i].coro = tasks[j].coro /\ InCycle(i) /\ InCycle(j)) => i = j)

\* a poll is between two tokens, after a cycle that ran to its end
C19_Witness ==
    /\ \E i \in 1..Len(main) : InCycle(i) /\ tasks[i].keys # <<>>
                                          /\ Len(tasks[i].keys) < Cardinality(Tokens)
    /\ last.op = "alert_monitoring_cycle"

\* the alert of the token, as the poll reads it, has the thresholds of a completed
\* call: for every call of add_price_alert in progress for the same user and token,
\* either those the call found or those the call sets
WholeAlert(t, alert) ==
    \A h \in DOMAIN tasks :
        (/\ tasks[h].coro = "add_price_alert"
         /\ tasks[h].token_address = t
         /\ tasks[h].telegram_id = alert.telegram_id)
        => <<alert.price_high, alert.price_low>>
               \in {tasks[h].before, <<tasks[h].price_high, tasks[h].price_low>>}

\* C20: while check_price_alerts iterates over price_alerts, price_alerts is as the
\* iteration found it, and every alert of the token that an iteration step reads is
\* whole.
C20_PollSeesWholeSubscriptions ==
    /\ [](\A i \in 1..Len(main) : InCycle(i) => price_alerts = tasks[i].iterated)
    /\ [][\A i \in 1..Len(main) :
            (InCycle(i) /\ tasks[i].keys # <<>> /\ tasks'[i] # tasks[i]) =>
                LET t == Head(tasks[i].keys)
                IN \A k \in 1..Len(price_alerts[t]) : WholeAlert(t, price_alerts[t][k])]_vars

\* a poll has read the alert of a token whose thresholds were both replaced by a
\* completed update, and has another token to read
C20_Witness ==
    /\ \E i \in 1..Len(main) :
          /\ InCycle(i) /\ Len(tasks[i].keys) = 1
          /\ \E t \in DOMAIN tasks[i].iterated \ {Head(tasks[i].keys)} :
                \E k \in 1..Len(price_alerts[t]) :
                    price_alerts[t][k].price_high = None /\ price_alerts[t][k].price_low # None
    /\ last.op = "add_price_alert" /\ last.result = "updated"

----------------------------------------------------------------------------
(* Properties of the notifications *)

\* the number of times the event is in the sequence
Occurrences(events, e) == Cardinality({k \in 1..Len(events) : events[k] = e})

\* C21: in every cycle the alerts given to the notification step are the events that
\* check_price_alerts and check_liquidity_changes returned in that cycle, each as
\* many times as it was returned (so none of an earlier cycle); all of them but the
\* one whose notification raised are logged as sent; and the cycle ends in the
\* ordinary sleep of the loop.
C21_NotifiedExactlyOnce ==
    [][\A i \in 1..Len(tasks) :
          (tasks[i].coro = "start_alert_monitoring" /\ CycleOf(i)) =>
              LET returned == triggered_alerts' \o liquidity_alerts'
                  handed == tasks'[i].handed
                  sent == tasks'[i].sent
              IN /\ Len(handed) = Len(returned)
                 /\ \A k \in 1..Len(returned) :
                       Occurrences(handed, returned[k]) = Occurrences(returned, returned[k])
                 /\ Len(sent) >= Len(handed) - 1
                 /\ \A k \in 1..Len(sent) :
                       Occurrences(sent, sent[k]) <= Occurrences(handed, sent[k])
                 /\ tasks'[i].pc = "sleep" /\ tasks'[i].delay = AlertSleep
                 /\ last'.result = "ok"]_vars

\* a cycle returned a price event and a liquidity event, the notification of the
\* first raised and the second was sent
C21_Witness ==
    /\ last.op = "alert_monitoring_cycle"
    /\ triggered_alerts # <<>> /\ liquidity_alerts # <<>>
    /\ \E i \in 1..Len(tasks) :
          /\ tasks[i].coro = "start_alert_monitoring" /\ tasks[i].pc = "sleep"
          /\ Len(tasks[i].sent) = Len(tasks[i].handed) - 1
          /\ tasks[i].sent[Len(tasks[i].sent)] = liquidity_alerts[Len(liquidity_alerts)]
          /\ tasks[i].handed[1] # tasks[i].sent[1]

----------------------------------------------------------------------------
(* Properties of the recorded price *)

\* the price fields of a record that holds the price p
PriceFieldsOf(p) == [price_eth |-> PriceData(p).price_in_eth,
                     price_usd |-> PriceData(p).price_in_usd]

\* the step is a poll that fetched the price of the token
PriceFetched(t) ==
    /\ last'.op = "alert_monitoring_cycle"
    /\ t \in DOMAIN price_alerts
    /\ last'.quote[t] # Fail

\* C22: a poll that fetched the price of a token leaves that price in price_eth and
\* price_usd of the token's record, whatever events and errors the poll had; and
\* the price fields of a record change in no other step than such a poll and the
\* registration that creates the record with the price it fetched.
C22_RecordFollowsFetch ==
    [][\A t \in Tokens :
          /\ PriceFetched(t) => PriceFields(token_data', t) = PriceFieldsOf(last'.quote[t][1])
          /\ PriceFields(token_data', t) # PriceFields(token_data, t) =>
                \/ PriceFetched(t)
                \/ /\ last'.op = "add_price_alert" /\ last'.result = "added"
                   /\ t \notin DOMAIN token_data
                   /\ PriceFields(token_data', t) = PriceFieldsOf(last'.quote[1])]_vars

\* a poll fetched the highest price for a token with a subscription that has a high
\* threshold, emitted no event and had no error, and the record holds that price
C22_Witness ==
    /\ last.op = "alert_monitoring_cycle" /\ last.errors = {}
    /\ triggered_alerts = <<>>
    /\ \E t \in DOMAIN price_alerts :
          /\ last.quote[t] = Some(MaxPrice)
          /\ StoredPrice(token_data, t) = Some(MaxPrice)
          /\ \E k \in 1..Len(price_alerts[t]) : price_alerts[t][k].price_high # None

----------------------------------------------------------------------------
(* Properties of consecutive liquidity polls *)

\* C23: in every poll, for a token whose recorded ETH liquidity is positive, every
\* subscriber of the token gets exactly one liquidity_change event if the liquidity
\* that the poll leaves in the record differs by 20% or more from the one the
\* preceding poll left there, and none if it differs by less or not at all.
C23_EveryLargeSwingAlerts ==
    [][last'.op = "alert_monitoring_cycle" =>
        \A t \in DOMAIN token_data : \A u \in AlertUsers(price_alerts, t) :
            LET previous == StoredLiquidity(token_data, t)
                recorded == StoredLiquidity(token_data', t)
            IN (previous # None /\ previous[1] > 0) =>
                 Cardinality(EventsFor(liquidity_alerts', "liquidity_change", u, t))
                     = IF AtLeastTwentyPercent(previous[1], recorded[1]) THEN 1 ELSE 0]_vars

----------------------------------------------------------------------------
(* Properties of the processed transactions *)

\* C25: a call of process_transaction adds the hash of its transaction to
\* processed_transactions only if the sender of the transaction is a key of
\* monitored_wallets.
C25_ProcessedOnlyWhenWatched ==
    [][(/\ last'.op = "process_transaction"
        /\ last'.transaction.hash \notin processed_transactions
        /\ last'.transaction.hash \in processed_transactions') =>
           last'.transaction.from \in DOMAIN monitored_wallets]_vars

\* C26: when a call of process_transaction ended with an exception and the next call
\* is for the same transaction and raises nothing, every configuration in the
\* sender's list whose user has a wallet and a key has a mirror step for the
\* transaction after that call.
C26_PendingSubscribersRetried ==
    [][(/\ last.op = "process_transaction"
        /\ last.result = "Error processing transaction"
        /\ last'.op = "process_transaction"
        /\ last'.transaction = last.transaction
        /\ last'.result # "Error processing transaction") =>
           LET copying_users == Get(monitored_wallets, last.transaction.from, <<>>)
           IN \A k \in 1..Len(copying_users) :
                 HasWalletAndKey(copying_users[k]["telegram_id"]) =>
                    <<copying_users[k]["config_id"], last.transaction.hash>>
                        \in DOMAIN copy_trades']_vars

----------------------------------------------------------------------------
(* Properties of the events of one subscription in one poll *)

\* C24: in every poll, every subscription gets at most one price_high event and at
\* most one price_low event, and not both, whatever its thresholds.
C24_AtMostOneEdgePerPoll ==
    [][last'.op = "alert_monitoring_cycle" =>
        \A t \in Tokens, u \in TelegramIds :
            LET highs == Cardinality(EventsFor(triggered_alerts', "price_high", u, t))
                lows == Cardinality(EventsFor(triggered_alerts', "price_low", u, t))
            IN highs + lows <= 1]_vars

\* a poll emitted an event for a subscription whose high threshold is below its low
\* threshold, at a price between the two
C24_Witness ==
    /\ last.op = "alert_monitoring_cycle"
    /\ triggered_alerts # <<>>
    /\ \E t \in DOMAIN price_alerts : \E k \in 1..Len(price_alerts[t]) :
          /\ price_alerts[t][k].price_high = Some(1)
          /\ price_alerts[t][k].price_low = Some(2)
          /\ StoredPrice(token_data, t) = Some(1)

----------------------------------------------------------------------------
(* Properties of the registry of copy trading and of the configuration rows *)

\* the places <<wallet, position>> of the registry that hold the configuration
PlacesOf(wallets, config_id) ==
    {<<w, k>> \in (DOMAIN wallets) \X (1..MaxConfigs) :
        k <= Len(wallets[w]) /\ wallets[w][k]["config_id"] = config_id}

\* C27: every call update_copy_trading(c, active=False) for an existing configuration
\* c returns success, leaves c in no list of monitored_wallets, leaves no wallet with
\* an empty list, keeps the other configurations of the registry, and keeps the row
\* of c with active = FALSE and its other fields unchanged.
C27_PauseSucceedsAndRemoves ==
    [][(/\ last'.op = "update_copy_trading"
        /\ last'.args.active = Some(FALSE)
        /\ last'.args.config_id \in 1..Len(configs)) =>
           LET c == last'.args.config_id
           IN /\ last'.result = "success"
              /\ PlacesOf(monitored_wallets', c) = {}
              /\ \A w \in DOMAIN monitored_wallets' : monitored_wallets'[w] # <<>>
              /\ OtherConfigs(monitored_wallets', c) = OtherConfigs(monitored_wallets, c)
              /\ configs' = [configs EXCEPT ![c].active = FALSE]]_vars

\* C28: a configuration is in monitored_wallets if and only if its row has active =
\* TRUE, and then it is there once, under the target wallet of its row, with the
\* slippage_guard, max_eth_per_trade and sandbox_mode of its row.
C28_RegistryAgreesWithRows ==
    \A c \in 1..Len(configs) :
        LET places == PlacesOf(monitored_wallets, c)
        IN /\ (places # {}) <=> configs[c].active
           /\ \A x \in places :
                 LET cfg == monitored_wallets[x[1]][x[2]]
                 IN /\ places = {x}
                    /\ x[1] = configs[c].target_wallet
                    /\ cfg["slippage_guard"] = configs[c].slippage_guard
                    /\ cfg["max_eth_per_trade"] = configs[c].max_eth_per_trade
                    /\ cfg["sandbox_mode"] = configs[c].sandbox_mode

\* C29: a call of add_price_alert that returns an error leaves price_alerts and
\* token_data as they were.
C29_FailedRegistrationChangesNothing ==
    [][(last'.op = "add_price_alert" /\ last'.result \notin {"added", "updated"}) =>
           /\ price_alerts' = price_alerts
           /\ token_data' = token_data]_vars

\* C30: a call of update_copy_trading by a user for a configuration of another user
\* changes neither the rows nor monitored_wallets and does not return success.
C30_OnlyOwnerUpdates ==
    [][(/\ last'.op = "update_copy_trading"
        /\ last'.args.config_id \in 1..Len(configs)
        /\ \E u \in TelegramIds :
              /\ configs[last'.args.config_id].telegram_id # u
              /\ update_copy_trading(u, last'.args.config_id, last'.args.active,
                                     last'.args.slippage_guard, last'.args.sandbox_mode,
                                     last'.args.max_eth_per_trade)) =>
           /\ configs' = configs
           /\ monitored_wallets' = monitored_wallets
           /\ last'.result # "success"]_vars

====
